---------------------------- MODULE Spec2Model ----------------------------
(***************************************************************************)
(* Model of the Linux DVB tuner control layer of VLC                       *)
(* (modules/access/dtv/linux.c, built without USE_DMX): the tuner session  *)
(* (dvb_open / dvb_close), the data path (dvb_read), the PID filter table   *)
(* (dvb_add_pid / dvb_remove_pid), the parameter translation tables and the *)
(* delivery-system configurators (dvb_set_dvbc, ...), with the part of     *)
(* the kernel they act on: the process's descriptor table and the          *)
(* frontend's property cache.                                              *)
(***************************************************************************)
EXTENDS Integers, Sequences, FiniteSets, TLC

VARIABLES
    obj,      \* the inherited configuration variables read with var_Inherit*
    state,    \* "none" (no session yet), "open", "failed" (dvb_open gave NULL), "closed"
    d,        \* the fields of struct dvb_device
    kfd,      \* kernel: the open descriptors of the process, fd -> [kind, filter]
    fe,       \* kernel: the frontend's state (property cache, high LNB voltage)
    lastOp,   \* the last call made by the caller, with its arguments
    ret,      \* what that call returned
    calls     \* the system calls that call issued, in order

vars == <<obj, state, d, kfd, fe, lastOp, ret, calls>>

(***************************************************************************)
(* Bounds of the model.                                                    *)
(***************************************************************************)
\* Capacity of the per-PID filter table (256 in the source, scaled down).
MAX_PIDS == 3
\* The PIDs the caller asks for are 0..MaxPid, and 0xFFFF.
MaxPid == 2

PidSet == (0..MaxPid) \cup {65535}

\* Descriptor numbers the kernel can hand out: 0, 1 and 2 are taken by the
\* standard streams; a session never holds more than MAX_PIDS + 5 at once.
FdRange == 3..(MAX_PIDS + 8)

NoFilter == [pid |-> -1, output |-> "none"]

(***************************************************************************)
(* The kernel's descriptor table.                                          *)
(***************************************************************************)
\* The lowest free descriptor number that is at least a.
KLowest(k, a) ==
    LET free == {f \in FdRange : f >= a /\ f \notin DOMAIN k}
    IN CHOOSE f \in free : \A g \in free : f <= g

KOpen(k, kind) == (KLowest(k, 0) :> [kind |-> kind, filter |-> NoFilter]) @@ k

\* close(fd); closing a number that is not open (EBADF) changes nothing.
KClose(k, fd) == [f \in (DOMAIN k) \ {fd} |-> k[f]]

KSetFilter(k, fd, pid, output) ==
    [k EXCEPT ![fd].filter = [pid |-> pid, output |-> output]]

ToU16(x) == x % 65536

(***************************************************************************)
(* struct dvb_device                                                       *)
(***************************************************************************)
\* The table as the loop of dvb_open leaves it: fd = -1, pid = (uint16_t)-1.
EmptySlot == [fd |-> -1, pid |-> ToU16(-1)]

EmptyPids == [i \in 0..(MAX_PIDS - 1) |-> EmptySlot]

\* The record before dvb_open fills it. dir and pids are set in fallback
\* mode only; in budget mode no code path reads them.
NoDevice ==
    [frontend |-> -1, demux |-> -1, dir |-> -1, ca |-> -1,
     budget |-> FALSE, pids |-> EmptyPids]

CallOpen(what, fd) == [call |-> "open", what |-> what, fd |-> fd]
CallClose(fd) == [call |-> "close", fd |-> fd]
CallIoctl(fd, req, arg, res) ==
    [call |-> "ioctl", fd |-> fd, req |-> req, arg |-> arg, res |-> res]

(***************************************************************************)
(* dvb_close: returns the kernel table and the calls it made.              *)
(***************************************************************************)
RECURSIVE close_pids(_, _, _, _)
close_pids(dev, k, c, i) ==
    IF i >= MAX_PIDS THEN [k |-> k, c |-> c]
    ELSE IF dev.pids[i].fd # -1
         THEN close_pids(dev, KClose(k, dev.pids[i].fd),
                         Append(c, CallClose(dev.pids[i].fd)), i + 1)
         ELSE close_pids(dev, k, c, i + 1)

\* A dvb_close that forgets the CA descriptor.
dvb_close_forgets_ca(dev, k, c) ==
    LET s1 == IF ~dev.budget
              THEN close_pids(dev, KClose(k, dev.dir),
                              Append(c, CallClose(dev.dir)), 0)
              ELSE [k |-> k, c |-> c]
        s3 == IF dev.frontend # -1
              THEN [k |-> KClose(s1.k, dev.frontend),
                    c |-> Append(s1.c, CallClose(dev.frontend))]
              ELSE s1
    IN [k |-> KClose(s3.k, dev.demux), c |-> Append(s3.c, CallClose(dev.demux))]

dvb_close(dev, k, c) ==
    LET s1 == IF ~dev.budget
              THEN close_pids(dev, KClose(k, dev.dir),
                              Append(c, CallClose(dev.dir)), 0)
              ELSE [k |-> k, c |-> c]
        s2 == IF dev.ca # -1
              THEN [k |-> KClose(s1.k, dev.ca), c |-> Append(s1.c, CallClose(dev.ca))]
              ELSE s1
        s3 == IF dev.frontend # -1
              THEN [k |-> KClose(s2.k, dev.frontend),
                    c |-> Append(s2.c, CallClose(dev.frontend))]
              ELSE s2
    IN [k |-> KClose(s3.k, dev.demux), c |-> Append(s3.c, CallClose(dev.demux))]

(***************************************************************************)
(* dvb_open.  ok is the outcome of every call that can fail; dup is the    *)
(* result of fcntl (dirfd, F_DUPFD_CLOEXEC), which the source calls        *)
(* without the minimum-descriptor argument: the kernel reads an            *)
(* indeterminate value, so the call either fails (-1) or returns some free *)
(* descriptor number.                                                      *)
(***************************************************************************)
OpenOutcomes ==
    [adapter : BOOLEAN, malloc : BOOLEAN, demux : BOOLEAN, bufsize : BOOLEAN,
     filter : BOOLEAN, dvr : BOOLEAN, frontend : BOOLEAN, info : BOOLEAN,
     ca : BOOLEAN]

\* The values fcntl (dirfd, F_DUPFD_CLOEXEC) can return when k is the table.
DupResults(k) == {-1, KLowest(k, 0), KLowest(k, MAX_PIDS + 7)}

\* The result of a failed dvb_open: no session, NULL returned.
OpenFailed(k, c) == [dev |-> NoDevice, k |-> k, c |-> c, ok |-> FALSE]

\* Label error: close (dirfd); dvb_close (d); return NULL.
open_error(dev, k, c, dirfd) ==
    LET r == dvb_close(dev, KClose(k, dirfd), Append(c, CallClose(dirfd)))
    IN OpenFailed(r.k, r.c)

\* An open that gives up when the CA node cannot be opened.
open_tune_needs_ca(dev, k, c, dirfd, tune, ok) ==
    IF ~tune
    THEN [dev |-> dev, k |-> KClose(k, dirfd),
          c |-> Append(c, CallClose(dirfd)), ok |-> TRUE]
    ELSE IF ~ok.frontend
    THEN open_error(dev, k, Append(c, CallOpen("frontend", -1)), dirfd)
    ELSE
      LET fefd == KLowest(k, 0)
          k1 == KOpen(k, "frontend")
          dev1 == [dev EXCEPT !.frontend = fefd]
          c1 == Append(c, CallOpen("frontend", fefd))
          c2 == Append(c1, CallIoctl(fefd, "FE_GET_INFO", 0,
                                     IF ok.info THEN 0 ELSE -1))
      IN IF ~ok.info THEN open_error(dev1, k1, c2, dirfd)
         ELSE IF ~ok.ca
         THEN open_error(dev1, k1, Append(c2, CallOpen("ca", -1)), dirfd)
         ELSE [dev |-> [dev1 EXCEPT !.ca = KLowest(k1, 0)],
               k |-> KClose(KOpen(k1, "ca"), dirfd),
               c |-> c2 \o <<CallOpen("ca", KLowest(k1, 0)), CallClose(dirfd)>>,
               ok |-> TRUE]

\* Lines 255-281: the frontend and the CA node, then close (dirfd).
open_tune(dev, k, c, dirfd, tune, ok) ==
    IF ~tune
    THEN [dev |-> dev, k |-> KClose(k, dirfd),
          c |-> Append(c, CallClose(dirfd)), ok |-> TRUE]
    ELSE IF ~ok.frontend
    THEN open_error(dev, k, Append(c, CallOpen("frontend", -1)), dirfd)
    ELSE
      LET fefd == KLowest(k, 0)
          k1 == KOpen(k, "frontend")
          dev1 == [dev EXCEPT !.frontend = fefd]
          c1 == Append(c, CallOpen("frontend", fefd))
      IN IF ~ok.info
         THEN open_error(dev1, k1,
                         Append(c1, CallIoctl(fefd, "FE_GET_INFO", 0, -1)), dirfd)
         ELSE
           LET c2 == Append(c1, CallIoctl(fefd, "FE_GET_INFO", 0, 0))
               cafd == IF ok.ca THEN KLowest(k1, 0) ELSE -1
               k2 == IF ok.ca THEN KOpen(k1, "ca") ELSE k1
               dev2 == [dev1 EXCEPT !.ca = cafd]
               c3 == Append(c2, CallOpen("ca", cafd))
           IN [dev |-> dev2, k |-> KClose(k2, dirfd),
               c |-> Append(c3, CallClose(dirfd)), ok |-> TRUE]

\* Lines 206-234: budget mode, the demux node and the shared filter.
open_budget(dev, k, c, dirfd, tune, ok) ==
    IF ~ok.demux
    THEN OpenFailed(KClose(k, dirfd),
                    c \o <<CallOpen("demux", -1), CallClose(dirfd)>>)
    ELSE
      LET fd == KLowest(k, 0)
          k1 == KOpen(k, "demux")
          dev1 == [dev EXCEPT !.demux = fd]
          c1 == c \o <<CallOpen("demux", fd),
                       CallIoctl(fd, "DMX_SET_BUFFER_SIZE", 1048576,
                                 IF ok.bufsize THEN 0 ELSE -1)>>
          pid == IF dev.budget THEN 8192 ELSE 0
      IN IF ~ok.filter
         THEN open_error(dev1, k1,
                         Append(c1, CallIoctl(fd, "DMX_SET_PES_FILTER", pid, -1)),
                         dirfd)
         ELSE open_tune(dev1, KSetFilter(k1, fd, pid, "DMX_OUT_TSDEMUX_TAP"),
                        Append(c1, CallIoctl(fd, "DMX_SET_PES_FILTER", pid, 0)),
                        dirfd, tune, ok)

\* Lines 238-251: fallback mode, the directory duplicate, the table, the DVR node.
\* openat with d->dir = -1 and a relative path fails whatever the node.
open_fallback(dev, k, c, dirfd, tune, ok, dup) ==
    LET k1 == IF dup # -1 THEN (dup :> [kind |-> "dir", filter |-> NoFilter]) @@ k
              ELSE k
        dev1 == [dev EXCEPT !.dir = dup, !.pids = EmptyPids]
        c1 == Append(c, [call |-> "fcntl", fd |-> dirfd, res |-> dup])
    IN IF dup = -1 \/ ~ok.dvr
       THEN OpenFailed(KClose(k1, dirfd),
                       c1 \o <<CallOpen("dvr", -1), CallClose(dirfd)>>)
       ELSE
         LET fd == KLowest(k1, 0)
         IN open_tune([dev1 EXCEPT !.demux = fd], KOpen(k1, "dvr"),
                      Append(c1, CallOpen("dvr", fd)), dirfd, tune, ok)

dvb_open(k, budget, tune, ok, dup) ==
    IF ~ok.adapter
    THEN OpenFailed(k, <<CallOpen("adapter", -1)>>)
    ELSE
      LET dirfd == KLowest(k, 0)
          k1 == KOpen(k, "dir")
          c1 == <<CallOpen("adapter", dirfd)>>
      IN IF ~ok.malloc
         THEN OpenFailed(KClose(k1, dirfd), Append(c1, CallClose(dirfd)))
         ELSE
           LET dev == [NoDevice EXCEPT !.budget = budget]
           IN IF dev.budget
              THEN open_budget(dev, k1, c1, dirfd, tune, ok)
              ELSE open_fallback(dev, k1, c1, dirfd, tune, ok, dup)


(***************************************************************************)
(* dvb_add_pid and dvb_remove_pid.  Each returns the session record, the   *)
(* kernel table, the calls it made and its return value.                   *)
(***************************************************************************)
\* Line 378: the slot holds the requested PID.
pid_matches(slot, pid) == slot.pid = pid

\* Line 380: the slot holds an open descriptor.
slot_busy(slot) == slot.fd # -1

AddOutcomes == [open : BOOLEAN, filter : BOOLEAN]

\* An add that leaves the descriptor open when the filter is refused.
add_pid_slot_keeps_fd(dev, k, pid, ok, i) ==
    IF ~ok.open
    THEN [dev |-> dev, k |-> k, c |-> <<CallOpen("demux", -1)>>, ret |-> -1]
    ELSE
      LET fd == KLowest(k, 0)
          k1 == KOpen(k, "demux")
      IN IF ~ok.filter
         THEN [dev |-> dev, k |-> k1,
               c |-> <<CallOpen("demux", fd),
                       CallIoctl(fd, "DMX_SET_PES_FILTER", pid, -1)>>,
               ret |-> -1]
         ELSE [dev |-> [dev EXCEPT !.pids[i] = [fd |-> fd, pid |-> pid]],
               k |-> KSetFilter(k1, fd, pid, "DMX_OUT_TS_TAP"),
               c |-> <<CallOpen("demux", fd),
                       CallIoctl(fd, "DMX_SET_PES_FILTER", pid, 0)>>,
               ret |-> 0]

\* Lines 383-403: open a demux descriptor, install the filter, fill slot i.
add_pid_slot(dev, k, pid, ok, i) ==
    IF ~ok.open
    THEN [dev |-> dev, k |-> k, c |-> <<CallOpen("demux", -1)>>, ret |-> -1]
    ELSE
      LET fd == KLowest(k, 0)
          k1 == KOpen(k, "demux")
      IN IF ~ok.filter
         THEN [dev |-> dev, k |-> KClose(k1, fd),
               c |-> <<CallOpen("demux", fd),
                       CallIoctl(fd, "DMX_SET_PES_FILTER", pid, -1),
                       CallClose(fd)>>,
               ret |-> -1]
         ELSE [dev |-> [dev EXCEPT !.pids[i] = [fd |-> fd, pid |-> pid]],
               k |-> KSetFilter(k1, fd, pid, "DMX_OUT_TS_TAP"),
               c |-> <<CallOpen("demux", fd),
                       CallIoctl(fd, "DMX_SET_PES_FILTER", pid, 0)>>,
               ret |-> 0]

\* A table that takes the PID although no slot is free.
add_pid_full_accepts(dev, k) == [dev |-> dev, k |-> k, c |-> <<>>, ret |-> 0]

\* Lines 405-409: no slot is free, errno = EMFILE, return -1.
add_pid_full(dev, k) == [dev |-> dev, k |-> k, c |-> <<>>, ret |-> -1]

\* Lines 376-404: the scan of the table.
RECURSIVE add_pid_scan(_, _, _, _, _)
add_pid_scan(dev, k, pid, ok, i) ==
    IF i >= MAX_PIDS THEN add_pid_full(dev, k)
    ELSE IF pid_matches(dev.pids[i], pid)
    THEN [dev |-> dev, k |-> k, c |-> <<>>, ret |-> 0]
    ELSE IF slot_busy(dev.pids[i]) THEN add_pid_scan(dev, k, pid, ok, i + 1)
    ELSE add_pid_slot(dev, k, pid, ok, i)

\* dvb_add_pid treating PID 0 as always present, as the USE_DMX build does.
dvb_add_pid_skips_pat(dev, k, pid, ok) ==
    IF dev.budget \/ pid = 0 THEN [dev |-> dev, k |-> k, c |-> <<>>, ret |-> 0]
    ELSE add_pid_scan(dev, k, pid, ok, 0)

\* dvb_add_pid without the budget-mode test.
dvb_add_pid_ignores_budget(dev, k, pid, ok) == add_pid_scan(dev, k, pid, ok, 0)

dvb_add_pid(dev, k, pid, ok) ==
    IF dev.budget THEN [dev |-> dev, k |-> k, c |-> <<>>, ret |-> 0]
    ELSE add_pid_scan(dev, k, pid, ok, 0)

\* A removal that takes the PID for a slot number when no slot holds it.
RECURSIVE remove_pid_scan_by_slot(_, _, _, _)
remove_pid_scan_by_slot(dev, k, pid, i) ==
    IF i >= MAX_PIDS
    THEN IF pid < MAX_PIDS
         THEN [dev |-> [dev EXCEPT !.pids[pid] = EmptySlot],
               k |-> KClose(k, dev.pids[pid].fd),
               c |-> <<CallClose(dev.pids[pid].fd)>>]
         ELSE [dev |-> dev, k |-> k, c |-> <<>>]
    ELSE IF pid_matches(dev.pids[i], pid)
    THEN [dev |-> [dev EXCEPT !.pids[i] = EmptySlot],
          k |-> KClose(k, dev.pids[i].fd),
          c |-> <<CallClose(dev.pids[i].fd)>>]
    ELSE remove_pid_scan_by_slot(dev, k, pid, i + 1)

\* A removal that empties the slot and leaves its descriptor open.
RECURSIVE remove_pid_scan_keeps_fd(_, _, _, _)
remove_pid_scan_keeps_fd(dev, k, pid, i) ==
    IF i >= MAX_PIDS THEN [dev |-> dev, k |-> k, c |-> <<>>]
    ELSE IF pid_matches(dev.pids[i], pid)
    THEN [dev |-> [dev EXCEPT !.pids[i] = EmptySlot], k |-> k, c |-> <<>>]
    ELSE remove_pid_scan_keeps_fd(dev, k, pid, i + 1)

\* Lines 420-428: the first slot holding pid is closed and emptied.
RECURSIVE remove_pid_scan(_, _, _, _)
remove_pid_scan(dev, k, pid, i) ==
    IF i >= MAX_PIDS THEN [dev |-> dev, k |-> k, c |-> <<>>]
    ELSE IF pid_matches(dev.pids[i], pid)
    THEN [dev |-> [dev EXCEPT !.pids[i] = EmptySlot],
          k |-> KClose(k, dev.pids[i].fd),
          c |-> <<CallClose(dev.pids[i].fd)>>]
    ELSE remove_pid_scan(dev, k, pid, i + 1)

dvb_remove_pid(dev, k, pid) ==
    IF dev.budget THEN [dev |-> dev, k |-> k, c |-> <<>>]
    ELSE remove_pid_scan(dev, k, pid, 0)

(***************************************************************************)
(* uint32_t values.  A value is the pair <<high 16 bits, low 16 bits>>, so *)
(* that the whole 32-bit range is there and arithmetic wraps as in C.      *)
(***************************************************************************)
U32(n) == <<n \div 65536, n % 65536>>

U32Less(a, b) == a[1] < b[1] \/ (a[1] = b[1] /\ a[2] < b[2])

\* a - b modulo 2^32.
U32Sub(a, b) ==
    LET lo == a[2] - b[2]
        hi == a[1] - b[1] - (IF lo < 0 THEN 1 ELSE 0)
    IN <<hi % 65536, lo % 65536>>

\* a * 1000 modulo 2^32.
U32Mul1000(a) ==
    LET lo == a[2] * 1000
    IN <<(a[1] * 1000 + lo \div 65536) % 65536, lo % 65536>>

\* a / 1000, rounded down: long division by halves; the second quotient
\* is below 65536.
U32Div1000(a) ==
    LET rest == (a[1] % 1000) * 65536 + a[2]
    IN <<a[1] \div 1000, rest \div 1000>>

\* (int32_t)a < 0
I32Negative(a) == a[1] >= 32768

\* Bitwise or of two naturals.
RECURSIVE BitOr(_, _)
BitOr(a, b) ==
    IF a = 0 THEN b
    ELSE IF b = 0 THEN a
    ELSE (IF a % 2 = 1 \/ b % 2 = 1 THEN 1 ELSE 0) + 2 * BitOr(a \div 2, b \div 2)

(***************************************************************************)
(* Configuration strings.  A C string is the sequence of its character     *)
(* codes; the null pointer is a value of its own.                          *)
(***************************************************************************)
Ascii ==
    [c \in {"/", "0", "1", "2", "3", "4", "5", "6", "7", "8", "9",
            "A", "B", "D", "K", "M", "P", "Q", "S", "V", "a", "m", "q"} |->
       CASE c = "/" -> 47 [] c = "0" -> 48 [] c = "1" -> 49 [] c = "2" -> 50
         [] c = "3" -> 51 [] c = "4" -> 52 [] c = "5" -> 53 [] c = "6" -> 54
         [] c = "7" -> 55 [] c = "8" -> 56 [] c = "9" -> 57 [] c = "A" -> 65
         [] c = "B" -> 66 [] c = "D" -> 68 [] c = "K" -> 75 [] c = "M" -> 77
         [] c = "P" -> 80 [] c = "Q" -> 81 [] c = "S" -> 83 [] c = "V" -> 86
         [] c = "a" -> 97 [] c = "m" -> 109 [] c = "q" -> 113]

Str(chars) == [i \in 1..Len(chars) |-> Ascii[chars[i]]]

NULL == <<-1>>

CharAt(str, i) == IF i <= Len(str) THEN str[i] ELSE 0

RECURSIVE strcmp_from(_, _, _)
strcmp_from(a, b, i) ==
    IF CharAt(a, i) # CharAt(b, i) THEN CharAt(a, i) - CharAt(b, i)
    ELSE IF CharAt(a, i) = 0 THEN 0
    ELSE strcmp_from(a, b, i + 1)

strcmp(a, b) == strcmp_from(a, b, 1)

(***************************************************************************)
(* The translation tables and their lookup.                                *)
(***************************************************************************)
\* bsearch of the C library over n elements, given the comparator's value
\* against each element: the index of the element found, 0 for NULL. The
\* probe of a range is its middle element.
RECURSIVE bsearch_range(_, _, _)
bsearch_range(cmp, l, u) ==
    IF l >= u THEN 0
    ELSE LET idx == (l + u) \div 2
         IN IF cmp[idx + 1] < 0 THEN bsearch_range(cmp, l, idx)
            ELSE IF cmp[idx + 1] > 0 THEN bsearch_range(cmp, idx + 1, u)
            ELSE idx + 1

bsearch(cmp) == bsearch_range(cmp, 0, Len(cmp))

icmp(key, entry) == key - entry.vlc

dvb_parse_int(i, map, def) ==
    LET p == bsearch([j \in 1..Len(map) |-> icmp(i, map[j])])
    IN IF p # 0 THEN map[p].linux_ ELSE def

\* A comparison that stops at the end of the table's key, as strncmp would.
scmp_up_to_key_length(key, entry) ==
    strcmp(SubSeq(key, 1, IF Len(key) < Len(entry.vlc)
                          THEN Len(key) ELSE Len(entry.vlc)), entry.vlc)

\* Lines 93-98.
scmp(key, entry) == strcmp(key, entry.vlc)

dvb_parse_str(str, map, def) ==
    IF str # NULL
    THEN LET p == bsearch([j \in 1..Len(map) |-> scmp(str, map[j])])
         IN IF p # 0 THEN map[p].linux_ ELSE def
    ELSE def

Entry(vlc, linux_) == [vlc |-> vlc, linux_ |-> linux_]

\* Lines 116-131.
mods ==
    << Entry(Str(<<"1", "2", "8", "Q", "A", "M">>), "QAM_128"),
       Entry(Str(<<"1", "6", "A", "P", "S", "K">>), "APSK_16"),
       Entry(Str(<<"1", "6", "Q", "A", "M">>), "QAM_16"),
       Entry(Str(<<"1", "6", "V", "S", "B">>), "VSB_16"),
       Entry(Str(<<"2", "5", "6", "Q", "A", "M">>), "QAM_256"),
       Entry(Str(<<"3", "2", "A", "P", "S", "K">>), "APSK_32"),
       Entry(Str(<<"3", "2", "Q", "A", "M">>), "QAM_32"),
       Entry(Str(<<"6", "4", "Q", "A", "M">>), "QAM_64"),
       Entry(Str(<<"8", "P", "S", "K">>), "PSK_8"),
       Entry(Str(<<"8", "V", "S", "B">>), "VSB_8"),
       Entry(Str(<<"D", "Q", "P", "S", "K">>), "DQPSK"),
       Entry(Str(<<"Q", "A", "M">>), "QAM_AUTO"),
       Entry(Str(<<"Q", "P", "S", "K">>), "QPSK") >>

dvb_parse_modulation(str, def) ==
    dvb_parse_str(str, mods, def)

\* Lines 137-151.
rates ==
    << Entry(Str(<<>>), "FEC_AUTO"),
       Entry(Str(<<"1", "/", "2">>), "FEC_1_2"),
       Entry(Str(<<"2", "/", "3">>), "FEC_2_3"),
       Entry(Str(<<"3", "/", "4">>), "FEC_3_4"),
       Entry(Str(<<"4", "/", "5">>), "FEC_4_5"),
       Entry(Str(<<"5", "/", "6">>), "FEC_5_6"),
       Entry(Str(<<"6", "/", "7">>), "FEC_6_7"),
       Entry(Str(<<"7", "/", "8">>), "FEC_7_8"),
       Entry(Str(<<"8", "/", "9">>), "FEC_8_9"),
       Entry(Str(<<"9", "/", "1", "0">>), "FEC_9_10") >>

dvb_parse_fec(str) ==
    dvb_parse_str(str, rates, "FEC_AUTO")

\* enum fe_sec_voltage, fe_sec_tone_mode, fe_sec_mini_cmd of <linux/dvb/frontend.h>
SEC_VOLTAGE_13 == 0
SEC_VOLTAGE_18 == 1
SEC_VOLTAGE_OFF == 2
SEC_TONE_ON == 0
SEC_TONE_OFF == 1
SEC_MINI_A == 0
SEC_MINI_B == 1

\* Lines 541-547. The polarization is a char: 'H' = 72, 'L' = 76, 'R' = 82,
\* 'V' = 86.
polarization_tab ==
    << Entry(0, SEC_VOLTAGE_OFF),
       Entry(72, SEC_VOLTAGE_18),
       Entry(76, SEC_VOLTAGE_18),
       Entry(82, SEC_VOLTAGE_13),
       Entry(86, SEC_VOLTAGE_13) >>

dvb_parse_polarization(pol) ==
    dvb_parse_int(pol, polarization_tab, SEC_VOLTAGE_OFF)

\* Lines 691-700.
transmit_mode_tab ==
    << Entry(-1, "TRANSMISSION_MODE_AUTO"),
       Entry(2, "TRANSMISSION_MODE_2K"),
       Entry(4, "TRANSMISSION_MODE_4K"),
       Entry(8, "TRANSMISSION_MODE_8K") >>

dvb_parse_transmit_mode(i) ==
    dvb_parse_int(i, transmit_mode_tab, "TRANSMISSION_MODE_AUTO")

\* Lines 707-716.
guard_tab ==
    << Entry(Str(<<>>), "GUARD_INTERVAL_AUTO"),
       Entry(Str(<<"1", "/", "1", "6">>), "GUARD_INTERVAL_1_16"),
       Entry(Str(<<"1", "/", "3", "2">>), "GUARD_INTERVAL_1_32"),
       Entry(Str(<<"1", "/", "4">>), "GUARD_INTERVAL_1_4"),
       Entry(Str(<<"1", "/", "8">>), "GUARD_INTERVAL_1_8") >>

dvb_parse_guard(str) ==
    dvb_parse_str(str, guard_tab, "GUARD_INTERVAL_AUTO")

\* enum fe_hierarchy of <linux/dvb/frontend.h>
HIERARCHY_NONE == 0
HIERARCHY_1 == 1
HIERARCHY_2 == 2
HIERARCHY_4 == 3
HIERARCHY_AUTO == 4

\* The table as the source initializes it: each entry lists the enum value
\* first, so the enum value lands in the field vlc, which the search
\* compares, and the configuration value in the field linux_, which the
\* search returns (lines 723-730).
hierarchy_tab ==
    << Entry(HIERARCHY_AUTO, -1),
       Entry(HIERARCHY_NONE, 0),
       Entry(HIERARCHY_1, 1),
       Entry(HIERARCHY_2, 2),
       Entry(HIERARCHY_4, 4) >>

dvb_parse_hierarchy(i) ==
    dvb_parse_int(i, hierarchy_tab, HIERARCHY_AUTO)

(***************************************************************************)
(* The frontend.  Its state is the cache of the properties it has accepted *)
(* since the last DTV_CLEAR, and whether the high LNB voltage is enabled.  *)
(* A property set is a sequence of (command, value) pairs; FE_SET_PROPERTY *)
(* applies all of them in order, or, when the frontend rejects the set,    *)
(* none.                                                                   *)
(***************************************************************************)
MsgErr(text) == [call |-> "msg_Err", text |-> text]

NoProps == [c \in {} |-> 0]

FeInit == [props |-> NoProps, high_lnb |-> 0]

Prop(cmd, data) == [cmd |-> cmd, data |-> data]

RECURSIVE ApplyProps(_, _, _)
ApplyProps(cache, ps, i) ==
    IF i > Len(ps) THEN cache
    ELSE IF ps[i].cmd = "DTV_CLEAR" THEN ApplyProps(NoProps, ps, i + 1)
    ELSE ApplyProps((ps[i].cmd :> ps[i].data) @@ cache, ps, i + 1)

\* What dvb_vset_props issues: the ioctl, and the error message when the
\* ioctl fails. (The "setting property" debug lines repeat the ioctl's
\* argument and are not recorded.)
set_props_calls(dev, ps, accept) ==
    IF accept THEN <<CallIoctl(dev.frontend, "FE_SET_PROPERTY", ps, 0)>>
    ELSE << CallIoctl(dev.frontend, "FE_SET_PROPERTY", ps, -1),
            MsgErr("cannot set frontend tuning parameters") >>

\* An FE_SET_PROPERTY call that reports failure although the set was applied.
dvb_set_props_late_error(dev, f, ps, accept) ==
    [fe |-> [f EXCEPT !.props = ApplyProps(f.props, ps, 1)],
     c |-> set_props_calls(dev, ps, accept),
     ret |-> IF accept THEN 0 ELSE -1]

\* dvb_vset_props / dvb_set_props: one FE_SET_PROPERTY ioctl. The frontend
\* applies an accepted set in order and none of a rejected set.
dvb_set_props(dev, f, ps, accept) ==
    [fe |-> IF accept THEN [f EXCEPT !.props = ApplyProps(f.props, ps, 1)] ELSE f,
     c |-> set_props_calls(dev, ps, accept),
     ret |-> IF accept THEN 0 ELSE -1]

(***************************************************************************)
(* The delivery-system configurators.                                      *)
(***************************************************************************)
dvb_set_dvbc(dev, f, freq, modstr, srate, fecstr, accept) ==
    LET mod == dvb_parse_modulation(modstr, "QAM_AUTO")
        fec == dvb_parse_fec(fecstr)
    IN dvb_set_props(dev, f,
         << Prop("DTV_CLEAR", U32(0)),
            Prop("DTV_DELIVERY_SYSTEM", "SYS_DVBC_ANNEX_AC"),
            Prop("DTV_FREQUENCY", U32Mul1000(freq)),
            Prop("DTV_MODULATION", mod),
            Prop("DTV_SYMBOL_RATE", srate),
            Prop("DTV_INNER_FEC", fec) >>, accept)

\* A DVB-S configurator that takes its frequency in MHz.
dvb_set_dvbs_scaled(dev, f, freq, srate, fecstr, accept) ==
    LET fec == dvb_parse_fec(fecstr)
    IN dvb_set_props(dev, f,
         << Prop("DTV_CLEAR", U32(0)),
            Prop("DTV_DELIVERY_SYSTEM", "SYS_DVBS"),
            Prop("DTV_FREQUENCY", U32Mul1000(freq)),
            Prop("DTV_SYMBOL_RATE", srate),
            Prop("DTV_INNER_FEC", fec) >>, accept)

dvb_set_dvbs(dev, f, freq, srate, fecstr, accept) ==
    LET fec == dvb_parse_fec(fecstr)
    IN dvb_set_props(dev, f,
         << Prop("DTV_CLEAR", U32(0)),
            Prop("DTV_DELIVERY_SYSTEM", "SYS_DVBS"),
            Prop("DTV_FREQUENCY", freq),
            Prop("DTV_SYMBOL_RATE", srate),
            Prop("DTV_INNER_FEC", fec) >>, accept)

\* enum fe_pilot and enum fe_rolloff of <linux/dvb/frontend.h>
PILOT_ON == 0
PILOT_OFF == 1
PILOT_AUTO == 2
ROLLOFF_35 == 0
ROLLOFF_20 == 1
ROLLOFF_25 == 2

\* Lines 666-671.
dvbs2_pilot(pilot) ==
    CASE pilot = 0 -> PILOT_OFF
      [] pilot = 1 -> PILOT_ON
      [] OTHER -> PILOT_AUTO

\* Lines 673-679: the default is PILOT_AUTO, as in the source.
dvbs2_rolloff(rolloff) ==
    CASE rolloff = 20 -> ROLLOFF_20
      [] rolloff = 25 -> ROLLOFF_25
      [] rolloff = 35 -> ROLLOFF_35
      [] OTHER -> PILOT_AUTO

dvb_set_dvbs2(dev, f, freq, modstr, srate, fecstr, pilot, rolloff, accept) ==
    LET mod == dvb_parse_modulation(modstr, "QPSK")
        fec == dvb_parse_fec(fecstr)
    IN dvb_set_props(dev, f,
         << Prop("DTV_CLEAR", U32(0)),
            Prop("DTV_DELIVERY_SYSTEM", "SYS_DVBS2"),
            Prop("DTV_FREQUENCY", freq),
            Prop("DTV_MODULATION", mod),
            Prop("DTV_SYMBOL_RATE", srate),
            Prop("DTV_INNER_FEC", fec),
            Prop("DTV_PILOT", dvbs2_pilot(pilot)),
            Prop("DTV_ROLLOFF", dvbs2_rolloff(rolloff)) >>, accept)

dvb_set_dvbt(dev, f, freq, modstr, fechstr, feclstr, bandwidth, transmit_val, guardstr, hierarchy_val, accept) ==
    LET mod == dvb_parse_modulation(modstr, "QAM_AUTO")
        fec_hp == dvb_parse_fec(fechstr)
        fec_lp == dvb_parse_fec(feclstr)
        bw == U32Mul1000(U32Mul1000(bandwidth))
        transmit_mode == dvb_parse_transmit_mode(transmit_val)
        guard_it == dvb_parse_guard(guardstr)
        hierarchy == dvb_parse_hierarchy(hierarchy_val)
    IN dvb_set_props(dev, f,
         << Prop("DTV_CLEAR", U32(0)),
            Prop("DTV_DELIVERY_SYSTEM", "SYS_DVBT"),
            Prop("DTV_FREQUENCY", U32Mul1000(freq)),
            Prop("DTV_MODULATION", mod),
            Prop("DTV_CODE_RATE_HP", fec_hp),
            Prop("DTV_CODE_RATE_LP", fec_lp),
            Prop("DTV_BANDWIDTH_HZ", bw),
            Prop("DTV_TRANSMISSION_MODE", transmit_mode),
            Prop("DTV_GUARD_INTERVAL", guard_it),
            Prop("DTV_HIERARCHY", hierarchy) >>, accept)

\* An ATSC configurator that does not clear the previous configuration.
dvb_set_atsc_without_clear(dev, f, freq, modstr, accept) ==
    LET mod == dvb_parse_modulation(modstr, "VSB_8")
    IN dvb_set_props(dev, f,
         << Prop("DTV_DELIVERY_SYSTEM", "SYS_ATSC"),
            Prop("DTV_FREQUENCY", U32Mul1000(freq)),
            Prop("DTV_MODULATION", mod) >>, accept)

dvb_set_atsc(dev, f, freq, modstr, accept) ==
    LET mod == dvb_parse_modulation(modstr, "VSB_8")
    IN dvb_set_props(dev, f,
         << Prop("DTV_CLEAR", U32(0)),
            Prop("DTV_DELIVERY_SYSTEM", "SYS_ATSC"),
            Prop("DTV_FREQUENCY", U32Mul1000(freq)),
            Prop("DTV_MODULATION", mod) >>, accept)

dvb_set_cqam(dev, f, freq, modstr, accept) ==
    LET mod == dvb_parse_modulation(modstr, "QAM_AUTO")
    IN dvb_set_props(dev, f,
         << Prop("DTV_CLEAR", U32(0)),
            Prop("DTV_DELIVERY_SYSTEM", "SYS_DVBC_ANNEX_B"),
            Prop("DTV_FREQUENCY", U32Mul1000(freq)),
            Prop("DTV_MODULATION", mod) >>, accept)

(***************************************************************************)
(* dvb_set_sec: LNB oscillators, voltage, DiSEqC, continuous tone.         *)
(***************************************************************************)
\* Lines 567-573: the default oscillator frequencies, in MHz.
LnbBands ==
    << [min |-> 10700, max |-> 13250, low |-> 9750, high |-> 10600],
       [min |-> 4500, max |-> 4800, low |-> 5950, high |-> 0],
       [min |-> 3400, max |-> 4200, low |-> 5150, high |-> 0],
       [min |-> 2500, max |-> 2700, low |-> 3650, high |-> 0],
       [min |-> 950, max |-> 2150, low |-> 0, high |-> 0] >>

\* A band test that forgets the upper limit.
band_matches_open_ended(mhz, band) == ~U32Less(mhz, U32(band.min))

\* Line 577.
band_matches(mhz, band) ==
    ~U32Less(mhz, U32(band.min)) /\ ~U32Less(U32(band.max), mhz)

\* Lines 576-582: the index of the first band that holds mhz, 0 when none does.
RECURSIVE find_band(_, _)
find_band(mhz, i) ==
    IF i > Len(LnbBands) THEN 0
    ELSE IF band_matches(mhz, LnbBands[i]) THEN i
    ELSE find_band(mhz, i + 1)

\* Lines 561-588: the oscillator pair the rest of the call uses, and the
\* messages logged.
sec_oscillators(freq, lowf, highf) ==
    IF lowf # U32(0) THEN [lowf |-> lowf, highf |-> highf, c |-> <<>>]
    ELSE
      LET i == find_band(U32Div1000(freq), 1)
          lo == IF i # 0 THEN U32(LnbBands[i].low * 1000) ELSE lowf
          hi == IF i # 0 THEN U32(LnbBands[i].high * 1000) ELSE highf
          dbg == [call |-> "msg_Dbg", text |-> "selected LNB", low |-> lo, high |-> hi]
      IN [lowf |-> lo, highf |-> hi,
          c |-> IF i # 0 THEN <<dbg>> ELSE <<MsgErr("no known band"), dbg>>]

\* Lines 593-595: freq -= osc; if ((int32_t)freq < 0) freq *= -1.
sec_intermediate(freq, osc) ==
    LET diff == U32Sub(freq, osc)
    IN IF I32Negative(diff) THEN U32Sub(U32(0), diff) ELSE diff

\* A tone that, left to follow the oscillator, is on for the low one.
sec_tone_follows_low(option, high) ==
    CASE option = 0 -> SEC_TONE_OFF
      [] option = 1 -> SEC_TONE_ON
      [] OTHER -> IF high THEN SEC_TONE_OFF ELSE SEC_TONE_ON

\* Lines 599-604.
sec_tone(option, high) ==
    CASE option = 0 -> SEC_TONE_OFF
      [] option = 1 -> SEC_TONE_ON
      [] OTHER -> IF high THEN SEC_TONE_ON ELSE SEC_TONE_OFF

\* The data byte with the satellite number taken as the port, not satno - 1.
diseqc_data_port_off_by_one(satno, voltage, tone) ==
    BitOr(BitOr(BitOr(240, (satno % 4) * 4),
                (IF voltage = SEC_VOLTAGE_18 THEN 1 ELSE 0) * 2),
          IF tone = SEC_TONE_ON THEN 1 ELSE 0) % 256

\* Lines 618-625: data[0] = 0xF0 | (port << 2) | (polarization << 1) | option.
diseqc_data(satno, voltage, tone) ==
    BitOr(BitOr(BitOr(240, (((satno - 1) % 4) * 4)),
                (IF voltage = SEC_VOLTAGE_18 THEN 1 ELSE 0) * 2),
          IF tone = SEC_TONE_ON THEN 1 ELSE 0) % 256

Msleep(us) == [call |-> "msleep", us |-> us]

SecOutcomes ==
    {o \in [lnb : BOOLEAN, props1 : BOOLEAN, cmd : BOOLEAN, burst : BOOLEAN,
            props2 : BOOLEAN] :
       Cardinality({x \in {"props1", "cmd", "burst", "props2"} : ~o[x]}) <= 1}

\* A DiSEqC exchange that takes no notice of a failed tone burst.
sec_diseqc_ignores_burst_failure(dev, satno, voltage, tone, ok) ==
    IF satno = 0 THEN [c |-> <<>>, ok |-> TRUE]
    ELSE
      LET msg == <<224, 16, 56, diseqc_data(satno, voltage, tone), 0, 0>>
          c1 == << Msleep(15000),
                   CallIoctl(dev.frontend, "FE_DISEQC_SEND_MASTER_CMD", msg,
                             IF ok.cmd THEN 0 ELSE -1) >>
          mini == IF ((satno - 1) % 4) % 2 # 0 THEN SEC_MINI_B ELSE SEC_MINI_A
          c2 == c1 \o << Msleep(54000 + 15000),
                         CallIoctl(dev.frontend, "FE_DISEQC_SEND_BURST", mini,
                                   IF ok.burst THEN 0 ELSE -1) >>
      IN IF ~ok.cmd
         THEN [c |-> Append(c1, MsgErr("cannot send DiSEqC command")), ok |-> FALSE]
         ELSE [c |-> Append(c2, Msleep(15000)), ok |-> TRUE]

\* A DiSEqC exchange that sends the tone burst right after the command.
sec_diseqc_without_gap(dev, satno, voltage, tone, ok) ==
    IF satno = 0 THEN [c |-> <<>>, ok |-> TRUE]
    ELSE
      LET msg == <<224, 16, 56, diseqc_data(satno, voltage, tone), 0, 0>>
          c1 == << Msleep(15000),
                   CallIoctl(dev.frontend, "FE_DISEQC_SEND_MASTER_CMD", msg,
                             IF ok.cmd THEN 0 ELSE -1) >>
          mini == IF ((satno - 1) % 4) % 2 # 0 THEN SEC_MINI_B ELSE SEC_MINI_A
          c2 == c1 \o << CallIoctl(dev.frontend, "FE_DISEQC_SEND_BURST", mini,
                                   IF ok.burst THEN 0 ELSE -1) >>
      IN IF ~ok.cmd
         THEN [c |-> Append(c1, MsgErr("cannot send DiSEqC command")), ok |-> FALSE]
         ELSE IF ~ok.burst
         THEN [c |-> Append(c2, MsgErr("cannot send Mini-DiSEqC tone burst")),
               ok |-> FALSE]
         ELSE [c |-> Append(c2, Msleep(15000)), ok |-> TRUE]

\* Lines 611-644: the DiSEqC 1.0 exchange when a satellite number is set.
\* Returns the calls made and whether the exchange went through.
sec_diseqc(dev, satno, voltage, tone, ok) ==
    IF satno = 0 THEN [c |-> <<>>, ok |-> TRUE]
    ELSE
      LET msg == <<224, 16, 56, diseqc_data(satno, voltage, tone), 0, 0>>
          c1 == << Msleep(15000),
                   CallIoctl(dev.frontend, "FE_DISEQC_SEND_MASTER_CMD", msg,
                             IF ok.cmd THEN 0 ELSE -1) >>
          mini == IF ((satno - 1) % 4) % 2 # 0 THEN SEC_MINI_B ELSE SEC_MINI_A
          c2 == c1 \o << Msleep(54000 + 15000),
                         CallIoctl(dev.frontend, "FE_DISEQC_SEND_BURST", mini,
                                   IF ok.burst THEN 0 ELSE -1) >>
      IN IF ~ok.cmd
         THEN [c |-> Append(c1, MsgErr("cannot send DiSEqC command")), ok |-> FALSE]
         ELSE IF ~ok.burst
         THEN [c |-> Append(c2, MsgErr("cannot send Mini-DiSEqC tone burst")),
               ok |-> FALSE]
         ELSE [c |-> Append(c2, Msleep(15000)), ok |-> TRUE]

\* dvb_set_sec.  o holds the options "dvb-high-voltage", "dvb-tone" and
\* "dvb-satno"; ok the outcome of each frontend call.
dvb_set_sec(dev, f, o, freq, pol, lowf, highf, switchf, ok) ==
    LET val == IF o.high_voltage THEN 1 ELSE 0
        \* The argument handed to the ioctl is the address of val, which is
        \* not null: the frontend takes it as "enable".
        c0 == << CallIoctl(dev.frontend, "FE_ENABLE_HIGH_LNB_VOLTAGE", "&val",
                           IF ok.lnb THEN 0 ELSE -1) >>
              \o (IF ~ok.lnb /\ val # 0
                  THEN <<MsgErr("cannot enable high LNB voltage")>> ELSE <<>>)
        f0 == IF ok.lnb THEN [f EXCEPT !.high_lnb = 1] ELSE f
        osc == sec_oscillators(freq, lowf, highf)
        high == osc.highf # U32(0) /\ U32Less(switchf, freq)
        ifreq == sec_intermediate(freq, IF high THEN osc.highf ELSE osc.lowf)
        c1 == c0 \o osc.c
    IN IF ~U32Less(ifreq, <<32767, 65535>>)
       THEN [fe |-> f0, c |-> c1, ret |-> 0, aborted |-> TRUE]
       ELSE
         LET tone == sec_tone(o.tone, high)
             voltage == dvb_parse_polarization(pol)
             r1 == dvb_set_props(dev, f0,
                     << Prop("DTV_TONE", SEC_TONE_OFF),
                        Prop("DTV_VOLTAGE", voltage) >>, ok.props1)
         IN IF r1.ret # 0
            THEN [fe |-> r1.fe, c |-> c1 \o r1.c, ret |-> -1, aborted |-> FALSE]
            ELSE
              LET x == sec_diseqc(dev, o.satno, voltage, tone, ok)
                  r2 == dvb_set_props(dev, r1.fe,
                          << Prop("DTV_FREQUENCY", ifreq),
                             Prop("DTV_TONE", tone) >>, ok.props2)
              IN IF ~x.ok
                 THEN [fe |-> r1.fe, c |-> c1 \o r1.c \o x.c, ret |-> -1,
                       aborted |-> FALSE]
                 ELSE [fe |-> r2.fe, c |-> c1 \o r1.c \o x.c \o r2.c,
                       ret |-> r2.ret, aborted |-> FALSE]

(***************************************************************************)
(* dvb_read: wait for the data path and the frontend, dequeue one frontend *)
(* event, read.  Returns the calls made and the return value.              *)
(***************************************************************************)
\* The longest read the caller asks for, in bytes.
MaxLen == 2

\* What poll can report: failure, or for each descriptor whether its
\* revents is non-zero. The frontend is polled only when it is open.
PollOutcomes == [fail : BOOLEAN, demux : BOOLEAN, frontend : BOOLEAN]

\* errno of a failed FE_GET_EVENT, or "none".
EventOutcomes == {"none", "EOVERFLOW", "EWOULDBLOCK"}

\* read gives a byte count, or -1 with errno set.
ReadErrnos == {"EAGAIN", "EINTR", "EOVERFLOW", "EIO"}

ReadOutcomes(len) ==
    [val : 0..len, errno : {"none"}] \cup [val : {-1}, errno : ReadErrnos]

\* Lines 317-329.
read_poll(dev, p) ==
    LET fds == IF dev.frontend # -1 THEN <<dev.demux, dev.frontend>>
               ELSE <<dev.demux>>
        ready == {i \in 1..Len(fds) :
                    (i = 1 /\ p.demux) \/ (i = 2 /\ p.frontend)}
    IN [call |-> "poll", fds |-> fds, timeout |-> 500,
        revents |-> IF p.fail THEN {} ELSE {fds[i] : i \in ready},
        res |-> IF p.fail THEN -1 ELSE Cardinality(ready)]

\* Line 331: the frontend is open and poll flagged it.
frontend_ready(dev, p) == dev.frontend # -1 /\ p.frontend

\* ioctl (d->frontend, FE_GET_EVENT, &ev) with the errno it leaves.
CallGetEvent(fd, errno) ==
    [call |-> "ioctl", fd |-> fd, req |-> "FE_GET_EVENT", arg |-> "&ev",
     res |-> IF errno = "none" THEN 0 ELSE -1, errno |-> errno]

\* Lines 333-346: one FE_GET_EVENT. done tells that dvb_read returns here.
read_event(dev, ev) ==
    CASE ev = "none" ->
           [c |-> << CallGetEvent(dev.frontend, ev),
                     [call |-> "msg_Dbg", text |-> "frontend status"] >>,
            done |-> FALSE, ret |-> 0]
      [] ev = "EOVERFLOW" ->
           [c |-> << CallGetEvent(dev.frontend, ev),
                     MsgErr("cannot dequeue events fast enough!") >>,
            done |-> TRUE, ret |-> -1]
      [] OTHER ->
           [c |-> << CallGetEvent(dev.frontend, ev),
                     MsgErr("cannot dequeue frontend event") >>,
            done |-> TRUE, ret |-> 0]

CallRead(fd, len, rd) ==
    [call |-> "read", fd |-> fd, len |-> len, res |-> rd.val, errno |-> rd.errno]

\* A read that takes an overflow for a fatal failure.
read_data_overflow_is_eof(dev, len, rd) ==
    IF rd.val = -1 /\ rd.errno \notin {"EAGAIN", "EINTR"}
    THEN [c |-> <<CallRead(dev.demux, len, rd), MsgErr("cannot demux")>>, ret |-> 0]
    ELSE [c |-> <<CallRead(dev.demux, len, rd)>>, ret |-> rd.val]

\* Lines 351-362: one read of the data descriptor.
read_data(dev, len, rd) ==
    IF rd.val = -1 /\ rd.errno \notin {"EAGAIN", "EINTR"}
    THEN IF rd.errno = "EOVERFLOW"
         THEN [c |-> << CallRead(dev.demux, len, rd),
                        MsgErr("cannot demux data fast enough!") >>,
               ret |-> -1]
         ELSE [c |-> <<CallRead(dev.demux, len, rd), MsgErr("cannot demux")>>,
               ret |-> 0]
    ELSE [c |-> <<CallRead(dev.demux, len, rd)>>, ret |-> rd.val]

\* A dvb_read that reports end of stream when nothing is ready.
dvb_read_eof_when_idle(dev, len, p, ev, rd) ==
    LET c0 == <<read_poll(dev, p)>>
        e == IF frontend_ready(dev, p) THEN read_event(dev, ev)
             ELSE [c |-> <<>>, done |-> FALSE, ret |-> 0]
        r == read_data(dev, len, rd)
    IN IF p.fail THEN [c |-> c0, ret |-> -1]
       ELSE IF e.done THEN [c |-> c0 \o e.c, ret |-> e.ret]
       ELSE IF p.demux THEN [c |-> c0 \o e.c \o r.c, ret |-> r.ret]
       ELSE [c |-> c0 \o e.c, ret |-> 0]

\* A dvb_read that goes on to the data read after a failed dequeue.
dvb_read_reads_after_failed_event(dev, len, p, ev, rd) ==
    LET c0 == <<read_poll(dev, p)>>
        e == IF frontend_ready(dev, p) THEN read_event(dev, ev)
             ELSE [c |-> <<>>, done |-> FALSE, ret |-> 0]
        r == read_data(dev, len, rd)
    IN IF p.fail THEN [c |-> c0, ret |-> -1]
       ELSE IF p.demux THEN [c |-> c0 \o e.c \o r.c, ret |-> r.ret]
       ELSE [c |-> c0 \o e.c, ret |-> IF e.done THEN e.ret ELSE -1]

dvb_read(dev, len, p, ev, rd) ==
    LET c0 == <<read_poll(dev, p)>>
        e == IF frontend_ready(dev, p) THEN read_event(dev, ev)
             ELSE [c |-> <<>>, done |-> FALSE, ret |-> 0]
        r == read_data(dev, len, rd)
    IN IF p.fail THEN [c |-> c0, ret |-> -1]
       ELSE IF e.done THEN [c |-> c0 \o e.c, ret |-> e.ret]
       ELSE IF p.demux THEN [c |-> c0 \o e.c \o r.c, ret |-> r.ret]
       ELSE [c |-> c0 \o e.c, ret |-> -1]

(***************************************************************************)
(* The session: a caller opens the tuner, adds and removes PIDs, and       *)
(* closes it.                                                              *)
(***************************************************************************)
NoFds == [f \in {} |-> NoFilter]

\* The options the data path reads: "dvb-budget-mode".
SessionObj == [budget : BOOLEAN, tone : {-1}, satno : {0}, high_voltage : {FALSE}]

NoCall == [op |-> "none"]

Init ==
    /\ obj \in SessionObj
    /\ state = "none"
    /\ d = NoDevice
    /\ kfd = NoFds
    /\ fe = FeInit
    /\ lastOp = NoCall
    /\ ret = 0
    /\ calls = <<>>

\* The caller is between two calls on an open session.
Idle == state = "open" /\ lastOp = NoCall

DvbOpen ==
    /\ state = "none"
    /\ \E tune \in BOOLEAN, ok \in OpenOutcomes, dup \in DupResults(KOpen(kfd, "dir")) :
         LET r == dvb_open(kfd, obj.budget, tune, ok, dup)
         IN /\ state' = IF r.ok THEN "open" ELSE "failed"
            /\ d' = r.dev
            /\ kfd' = r.k
            /\ calls' = r.c
            /\ ret' = IF r.ok THEN 0 ELSE -1
            /\ lastOp' = [op |-> "dvb_open", tune |-> tune]
    /\ UNCHANGED <<obj, fe>>

DvbAddPid ==
    /\ Idle
    /\ \E pid \in PidSet, ok \in AddOutcomes :
         LET r == dvb_add_pid(d, kfd, pid, ok)
         IN /\ d' = r.dev
            /\ kfd' = r.k
            /\ calls' = r.c
            /\ ret' = r.ret
            /\ lastOp' = [op |-> "dvb_add_pid", pid |-> pid]
    /\ UNCHANGED <<obj, state, fe>>

DvbRemovePid ==
    /\ Idle
    /\ \E pid \in PidSet :
         LET r == dvb_remove_pid(d, kfd, pid)
         IN /\ d' = r.dev
            /\ kfd' = r.k
            /\ calls' = r.c
            /\ ret' = 0
            /\ lastOp' = [op |-> "dvb_remove_pid", pid |-> pid]
    /\ UNCHANGED <<obj, state, fe>>

DvbClose ==
    /\ Idle
    /\ LET r == dvb_close(d, kfd, <<>>)
       IN /\ kfd' = r.k
          /\ calls' = r.c
    /\ state' = "closed"
    /\ d' = NoDevice
    /\ ret' = 0
    /\ lastOp' = [op |-> "dvb_close"]
    /\ UNCHANGED <<obj, fe>>

\* The outcomes poll, FE_GET_EVENT and read can have in a call; those of a
\* call that is not made are fixed, so that each run of dvb_read is one step.
ReadRuns(dev, len) ==
    {o \in [p : PollOutcomes, ev : EventOutcomes, rd : ReadOutcomes(len)] :
        /\ (dev.frontend = -1 => ~o.p.frontend)
        /\ (o.p.fail => ~o.p.demux /\ ~o.p.frontend)
        /\ (~frontend_ready(dev, o.p) => o.ev = "none")
        /\ ((~o.p.demux \/ (frontend_ready(dev, o.p) /\ o.ev # "none"))
              => o.rd = [val |-> 0, errno |-> "none"])}

DvbRead ==
    /\ Idle
    /\ \E len \in 1..MaxLen :
         \E o \in ReadRuns(d, len) :
           LET r == dvb_read(d, len, o.p, o.ev, o.rd)
           IN /\ calls' = r.c
              /\ ret' = r.ret
              /\ lastOp' = [op |-> "dvb_read", len |-> len]
    /\ UNCHANGED <<obj, state, d, kfd, fe>>

\* The call has returned: the caller takes the result and goes on.
Return ==
    /\ state = "open"
    /\ lastOp # NoCall
    /\ lastOp' = NoCall
    /\ ret' = 0
    /\ calls' = <<>>
    /\ UNCHANGED <<obj, state, d, kfd, fe>>

Next == DvbOpen \/ DvbAddPid \/ DvbRemovePid \/ DvbRead \/ DvbClose \/ Return

Spec == Init /\ [][Next]_vars

(***************************************************************************)
(* Tuning: a caller configures the frontend of an open, tuned session.     *)
(***************************************************************************)
\* Largest hierarchy value and largest satellite number the caller passes.
MaxHierarchy == 5
MaxSatno == 2

AllOk ==
    [adapter |-> TRUE, malloc |-> TRUE, demux |-> TRUE, bufsize |-> TRUE,
     filter |-> TRUE, dvr |-> TRUE, frontend |-> TRUE, info |-> TRUE, ca |-> TRUE]

\* The session dvb_open (obj, true) returns when every call succeeds.
TunedSession == dvb_open(NoFds, TRUE, TRUE, AllOk, -1)

InitTuned(options) ==
    /\ obj \in options
    /\ state = "open"
    /\ d = TunedSession.dev
    /\ kfd = TunedSession.k
    /\ fe = FeInit
    /\ lastOp = NoCall
    /\ ret = 0
    /\ calls = <<>>

\* A configurator call with arguments a that gave r.
Configured(name, a, r) ==
    /\ fe' = r.fe
    /\ calls' = r.c
    /\ ret' = r.ret
    /\ lastOp' = [op |-> name, args |-> a]
    /\ UNCHANGED <<obj, d, kfd>>

DvbSetDvbc(Args) ==
    /\ Idle
    /\ \E a \in Args, accept \in BOOLEAN :
         Configured("dvb_set_dvbc", a,
                    dvb_set_dvbc(d, fe, a.freq, a.modstr, a.srate, a.fecstr, accept))
    /\ UNCHANGED state

DvbSetDvbs(Args) ==
    /\ Idle
    /\ \E a \in Args, accept \in BOOLEAN :
         Configured("dvb_set_dvbs", a,
                    dvb_set_dvbs(d, fe, a.freq, a.srate, a.fecstr, accept))
    /\ UNCHANGED state

DvbSetDvbs2(Args) ==
    /\ Idle
    /\ \E a \in Args, accept \in BOOLEAN :
         Configured("dvb_set_dvbs2", a,
                    dvb_set_dvbs2(d, fe, a.freq, a.modstr, a.srate, a.fecstr,
                                  a.pilot, a.rolloff, accept))
    /\ UNCHANGED state

DvbSetDvbt(Args) ==
    /\ Idle
    /\ \E a \in Args, accept \in BOOLEAN :
         Configured("dvb_set_dvbt", a,
                    dvb_set_dvbt(d, fe, a.freq, a.modstr, a.fechstr, a.feclstr,
                                 a.bandwidth, a.transmit_val, a.guardstr,
                                 a.hierarchy_val, accept))
    /\ UNCHANGED state

DvbSetAtsc(Args) ==
    /\ Idle
    /\ \E a \in Args, accept \in BOOLEAN :
         Configured("dvb_set_atsc", a, dvb_set_atsc(d, fe, a.freq, a.modstr, accept))
    /\ UNCHANGED state

DvbSetCqam(Args) ==
    /\ Idle
    /\ \E a \in Args, accept \in BOOLEAN :
         Configured("dvb_set_cqam", a, dvb_set_cqam(d, fe, a.freq, a.modstr, accept))
    /\ UNCHANGED state

\* A failed assertion ends the process.
DvbSetSec(Args) ==
    /\ Idle
    /\ \E a \in Args, ok \in SecOutcomes :
         LET r == dvb_set_sec(d, fe, obj, a.freq, a.pol, a.lowf, a.highf,
                              a.switchf, ok)
         IN /\ Configured("dvb_set_sec", a, r)
            /\ state' = IF r.aborted THEN "aborted" ELSE state

\* The arguments the callers pass.
S_QAM == Str(<<"Q", "A", "M">>)
S_64QAM == Str(<<"6", "4", "Q", "A", "M">>)
S_qam == Str(<<"q", "a", "m">>)
S_3_4 == Str(<<"3", "/", "4">>)
S_1_4 == Str(<<"1", "/", "4">>)

\* The keys of a table.
Keys(map) == {map[j].vlc : j \in 1..Len(map)}

\* The strings the "dvb-modulation" option takes here: no string, every key
\* of the table, and strings that are no key: empty, lower case, a key cut
\* short, a key with a letter more, one before and one after all keys.
ModulationStrings ==
    Keys(mods)
    \cup {NULL, Str(<<>>), S_qam, Str(<<"Q", "A">>), Str(<<"Q", "A", "M", "S">>),
          Str(<<"6", "4">>), Str(<<"0">>), Str(<<"a">>)}

\* The code rates: every key, and "1/3", "1/", "9/1", "9/100", "0", "a".
FecStrings ==
    Keys(rates)
    \cup {NULL, Str(<<"1", "/", "3">>), Str(<<"1", "/">>), Str(<<"9", "/", "1">>),
          Str(<<"9", "/", "1", "0", "0">>), Str(<<"0">>), Str(<<"a">>)}

\* The guard intervals: every key, and "1/128", "1/2", "1/", "1/160", "a".
GuardStrings ==
    Keys(guard_tab)
    \cup {NULL, Str(<<"1", "/", "1", "2", "8">>), Str(<<"1", "/", "2">>),
          Str(<<"1", "/">>), Str(<<"1", "/", "1", "6", "0">>), Str(<<"a">>)}

\* The transmission modes: every key, and 0, 1, 3, 16, 32 and -2.
TransmitModes == Keys(transmit_mode_tab) \cup {-2, 0, 1, 3, 16, 32}

\* 4294968 * 1000 = 2^32 + 704, and 4295 * 1000000 = 2^32 + 32704.
DvbcArgs ==
    [freq : {U32(474)}, modstr : ModulationStrings,
     srate : {U32(6900000)}, fecstr : {S_3_4}]
    \cup
    [freq : {U32(474), U32(4294968)}, modstr : {NULL, S_QAM},
     srate : {U32(6900000)}, fecstr : FecStrings]

DvbsArgs ==
    [freq : {U32(11000000), <<65535, 65535>>}, srate : {U32(27500000)},
     fecstr : {NULL, S_3_4, Str(<<"1", "/", "3">>)}]

Dvbs2Args ==
    [freq : {U32(11000000)}, modstr : {NULL}, srate : {U32(27500000)},
     fecstr : {S_3_4}, pilot : {0, 1, 2}, rolloff : {0, 20, 25, 35}]
    \cup
    [freq : {U32(11000000), <<65535, 65535>>},
     modstr : {NULL, S_qam, Str(<<"8", "P", "S", "K">>)},
     srate : {U32(27500000)}, fecstr : {NULL, Str(<<"9", "/", "1", "0">>)},
     pilot : {2}, rolloff : {35}]

DvbtArgs ==
    [freq : {U32(474)}, modstr : {S_64QAM}, fechstr : {S_3_4}, feclstr : {NULL},
     bandwidth : {U32(8)}, transmit_val : {-1, 8}, guardstr : {S_1_4},
     hierarchy_val : -1..MaxHierarchy]
    \cup
    [freq : {U32(474)}, modstr : {S_64QAM}, fechstr : {S_3_4}, feclstr : {NULL},
     bandwidth : {U32(8)}, transmit_val : TransmitModes, guardstr : {S_1_4},
     hierarchy_val : {0}]
    \cup
    [freq : {U32(474)}, modstr : {NULL, S_qam},
     fechstr : {Str(<<"1", "/", "2">>), Str(<<"1", "/", "3">>)},
     feclstr : {S_3_4}, bandwidth : {U32(8)}, transmit_val : {8},
     guardstr : GuardStrings, hierarchy_val : {0}]
    \cup
    [freq : {U32(474), U32(4294968)}, modstr : {S_64QAM}, fechstr : {S_3_4},
     feclstr : {NULL}, bandwidth : {U32(8), U32(4295)}, transmit_val : {8},
     guardstr : {S_1_4}, hierarchy_val : {0}]

AtscArgs ==
    [freq : {U32(575), U32(4294968)},
     modstr : {NULL, S_64QAM, S_qam, Str(<<"8", "V", "S", "B">>)}]

CqamArgs ==
    [freq : {U32(575), U32(4294968)},
     modstr : {NULL, S_64QAM, S_qam, Str(<<"2", "5", "6", "Q", "A", "M">>)}]

\* The options the configurators do not read.
TuneObj == [budget : {TRUE}, tone : {-1}, satno : {0}, high_voltage : {FALSE}]

InitTune == InitTuned(TuneObj)

NextTune ==
    \/ DvbSetDvbc(DvbcArgs)
    \/ DvbSetDvbs(DvbsArgs)
    \/ DvbSetDvbs2(Dvbs2Args)
    \/ DvbSetDvbt(DvbtArgs)
    \/ DvbSetAtsc(AtscArgs)
    \/ DvbSetCqam(CqamArgs)
    \/ Return

\* The six delivery-system configurators on a tuned session.
SpecTune == InitTune /\ [][NextTune]_vars

\* Satellite reception: the options "dvb-tone", "dvb-satno" and
\* "dvb-high-voltage", and the arguments of dvb_set_sec. The polarization
\* is 'H' (72) or 'V' (86). The last two frequencies are 0xFFFFFFFF and
\* 0x80000001 kHz.
SecObj ==
    [budget : {TRUE}, tone : {0, 1, -1, 2}, satno : 0..MaxSatno,
     high_voltage : BOOLEAN]

SecArgs ==
    [freq : {U32(11000000), U32(5000000), U32(3000000)}, pol : {72, 86},
     lowf : {U32(0)}, highf : {U32(0)}, switchf : {U32(0)}]
    \cup
    [freq : {U32(12000000)}, pol : {72},
     lowf : {U32(9750000)}, highf : {U32(10600000)}, switchf : {U32(11700000)}]
    \cup
    [freq : {<<65535, 65535>>, <<32768, 1>>}, pol : {72},
     lowf : {U32(1)}, highf : {U32(0)}, switchf : {U32(0)}]
    \cup
    [freq : {U32(3000000)}, pol : {72},
     lowf : {U32(0)}, highf : {U32(10600000)}, switchf : {U32(0)}]

One(S) == {CHOOSE a \in S : TRUE}

InitSec == InitTuned(SecObj)

NextSec ==
    \/ DvbSetSec(SecArgs)
    \/ DvbSetDvbc(One(DvbcArgs))
    \/ DvbSetDvbs(One(DvbsArgs))
    \/ DvbSetDvbs2(One(Dvbs2Args))
    \/ DvbSetDvbt(One(DvbtArgs))
    \/ DvbSetAtsc(One(AtscArgs))
    \/ DvbSetCqam(One(CqamArgs))
    \/ Return

\* dvb_set_sec and the six delivery-system configurators, each of these
\* with one set of arguments, on a tuned session.
SpecSec == InitSec /\ [][NextSec]_vars

(***************************************************************************)
(* Properties of the session and of the PID filter table.                  *)
(***************************************************************************)
\* Some slot holds an open filter descriptor for PID p.
Tracked(dev, p) ==
    \E i \in DOMAIN dev.pids : dev.pids[i].fd # -1 /\ dev.pids[i].pid = p

\* Every slot holds an open descriptor.
TableFull(dev) == \A i \in DOMAIN dev.pids : dev.pids[i].fd # -1

\* The calls of c that tried to open a device node.
OpensIn(c) == {i \in 1..Len(c) : c[i].call = "open"}

\* The descriptor that call i of c created, or -1.
Created(c, i) ==
    IF c[i].call = "open" THEN c[i].fd
    ELSE IF c[i].call = "fcntl" THEN c[i].res
    ELSE -1

\* Call i of c closes a descriptor that an earlier call of c created and
\* that no call in between closed.
ClosesOwn(c, i) ==
    \E j \in 1..(i - 1) :
        /\ Created(c, j) = c[i].fd
        /\ \A m \in (j + 1)..(i - 1) : ~(c[m].call = "close" /\ c[m].fd = c[i].fd)

InFallback == state = "open" /\ ~d.budget

InBudget == state = "open" /\ d.budget

\* The index of the slot at which the scan of dvb_add_pid for p stops: the
\* first slot that holds p or is free; MAX_PIDS when there is none.
FirstStop(dev, p) ==
    LET stops == {i \in DOMAIN dev.pids :
                     dev.pids[i].pid = p \/ dev.pids[i].fd = -1}
    IN IF stops = {} THEN MAX_PIDS
       ELSE CHOOSE i \in stops : \A j \in stops : i <= j

\* C1: in fallback mode, dvb_add_pid for a PID that a slot tracks returns
\* success, opens no descriptor and leaves the table unchanged.
C1_AddTrackedPidIsNoOp ==
    [][(InFallback /\ lastOp'.op = "dvb_add_pid" /\ Tracked(d, lastOp'.pid))
         => (ret' = 0 /\ OpensIn(calls') = {} /\ d'.pids = d.pids)]_vars

\* C2: when dvb_open fails, every descriptor it opened or duplicated has
\* been closed, and it closed no descriptor it had not opened.
C2_FailedOpenReleasesAll ==
    state = "failed" =>
        /\ DOMAIN kfd = {}
        /\ \A i \in 1..Len(calls) : calls[i].call = "close" => ClosesOwn(calls, i)

\* C8: in fallback mode, dvb_add_pid for PID 0 returns success without
\* opening a descriptor and without occupying a slot.
C8_AddPidZeroShortCircuits ==
    [][(InFallback /\ lastOp'.op = "dvb_add_pid" /\ lastOp'.pid = 0)
         => (ret' = 0 /\ OpensIn(calls') = {} /\ d'.pids = d.pids)]_vars

\* C8 as amended: in fallback mode PID 0 is added like any other PID. The
\* call short-circuits (success, nothing opened, table unchanged) only when
\* the scan meets a slot holding PID 0 before a free slot; when it meets a
\* free slot first it opens a demux descriptor, and on success that slot
\* holds PID 0 with a descriptor whose filter is installed for PID 0.
C8_AddPidZeroIsOrdinary ==
    [][(InFallback /\ lastOp'.op = "dvb_add_pid" /\ lastOp'.pid = 0)
         => LET i == FirstStop(d, 0)
            IN /\ (i < MAX_PIDS /\ d.pids[i].pid = 0)
                    => (ret' = 0 /\ OpensIn(calls') = {} /\ d'.pids = d.pids)
               /\ i = MAX_PIDS
                    => (ret' = -1 /\ OpensIn(calls') = {} /\ d'.pids = d.pids)
               /\ (i < MAX_PIDS /\ d.pids[i].pid # 0)
                    => /\ OpensIn(calls') # {}
                       /\ ret' = 0 =>
                            /\ d'.pids[i].pid = 0
                            /\ d'.pids[i].fd \in DOMAIN kfd' \ DOMAIN kfd
                            /\ kfd'[d'.pids[i].fd].filter.pid = 0
                            /\ \A j \in DOMAIN d.pids \ {i} : d'.pids[j] = d.pids[j]]_vars

\* A call dvb_add_pid (0) found the first slot free and filled it.
C8_Witness ==
    /\ InFallback
    /\ lastOp = [op |-> "dvb_add_pid", pid |-> 0]
    /\ ret = 0
    /\ OpensIn(calls) # {}
    /\ d.pids[0].pid = 0 /\ d.pids[0].fd \in DOMAIN kfd

\* C9: in fallback mode, with every slot holding an open descriptor and the
\* requested PID not tracked, dvb_add_pid fails, opens no descriptor and
\* leaves every slot unchanged.
C9_FullTableRejects ==
    [][(InFallback /\ lastOp'.op = "dvb_add_pid" /\ TableFull(d)
          /\ ~Tracked(d, lastOp'.pid))
         => (ret' = -1 /\ calls' = <<>> /\ d'.pids = d.pids /\ kfd' = kfd)]_vars

\* A full table has just turned down a PID it does not track.
C9_Witness ==
    /\ InFallback
    /\ lastOp.op = "dvb_add_pid"
    /\ ret = -1
    /\ calls = <<>>
    /\ TableFull(d)
    /\ ~Tracked(d, lastOp.pid)

\* C10: in budget mode, dvb_add_pid and dvb_remove_pid leave the session's
\* descriptors and the filtering state unchanged and issue no kernel call,
\* and dvb_add_pid returns success.
C10_BudgetPidCallsAreNoOps ==
    [][(InBudget /\ lastOp'.op \in {"dvb_add_pid", "dvb_remove_pid"})
         => /\ d' = d
            /\ kfd' = kfd
            /\ calls' = <<>>
            /\ ret' = 0]_vars

\* A budget-mode session has answered dvb_add_pid, its shared filter in place.
C10_Witness ==
    /\ InBudget
    /\ lastOp.op = "dvb_add_pid"
    /\ ret = 0
    /\ calls = <<>>
    /\ kfd[d.demux].filter.pid = 8192

(***************************************************************************)
(* Properties of the configurators.                                        *)
(***************************************************************************)
\* The FE_SET_PROPERTY calls of the last operation.
SetPropertyCalls ==
    {i \in 1..Len(calls) :
        calls[i].call = "ioctl" /\ calls[i].req = "FE_SET_PROPERTY"}

\* The values the last operation submitted for property cmd.
Submitted(cmd) ==
    UNION { {calls[i].arg[j].data :
               j \in {m \in 1..Len(calls[i].arg) : calls[i].arg[m].cmd = cmd}} :
            i \in SetPropertyCalls }

\* The DiSEqC master commands the last operation sent.
MasterCmds ==
    {calls[i].arg :
        i \in {n \in 1..Len(calls) :
                 calls[n].call = "ioctl"
                 /\ calls[n].req = "FE_DISEQC_SEND_MASTER_CMD"}}

\* The last operation logged that it selected the oscillator pair (low, high).
SelectedLnb(low, high) ==
    \E i \in 1..Len(calls) :
        /\ calls[i].call = "msg_Dbg"
        /\ calls[i].low = low
        /\ calls[i].high = high

\* The last operation logged that no band holds the frequency.
NoKnownBand ==
    \E i \in 1..Len(calls) : calls[i] = MsgErr("no known band")

Called(name) == lastOp # NoCall /\ lastOp.op = name

\* C3: dvb_set_dvbt submits DTV_HIERARCHY = HIERARCHY_NONE for input 0,
\* HIERARCHY_1 for 1, HIERARCHY_2 for 2, HIERARCHY_4 for 4 and
\* HIERARCHY_AUTO for every other input.
C3_HierarchyTranslation ==
    Called("dvb_set_dvbt") =>
        Submitted("DTV_HIERARCHY") =
            { CASE lastOp.args.hierarchy_val = 0 -> HIERARCHY_NONE
                [] lastOp.args.hierarchy_val = 1 -> HIERARCHY_1
                [] lastOp.args.hierarchy_val = 2 -> HIERARCHY_2
                [] lastOp.args.hierarchy_val = 4 -> HIERARCHY_4
                [] OTHER -> HIERARCHY_AUTO }

\* The case of C4: satellite 2, polarization 'V', tone forced on, and a
\* DiSEqC master command was sent.
C4_Case ==
    /\ Called("dvb_set_sec")
    /\ obj.satno = 2
    /\ obj.tone = 1
    /\ lastOp.args.pol = 86
    /\ MasterCmds # {}

\* C4: with satellite 2, polarization 'V' and the tone forced on, the
\* DiSEqC master command dvb_set_sec sends is E0 10 38 FD.
C4_DiseqcBytesFD ==
    C4_Case => \A m \in MasterCmds : SubSeq(m, 1, 4) = <<224, 16, 56, 253>>

\* C4 as amended: with satellite 2, polarization 'V' and the tone forced on,
\* the DiSEqC master command dvb_set_sec sends is E0 10 38 F5, followed by
\* two zero bytes: 0xF0 | (1 << 2) | (0 << 1) | 1 is 0xF5.
C4_DiseqcBytesF5 ==
    C4_Case => MasterCmds = { <<224, 16, 56, 245, 0, 0>> }

\* The command of C4 went out and the call went on to succeed.
C4_Witness ==
    /\ C4_Case
    /\ ret = 0
    /\ <<224, 16, 56, 245, 0, 0>> \in MasterCmds

\* dvb_set_sec was called for freq kHz without oscillator frequencies.
DefaultLnb(khz) ==
    /\ Called("dvb_set_sec")
    /\ lastOp.args.lowf = U32(0)
    /\ lastOp.args.freq = U32(khz)

\* C5: with lowf = 0, 11000 MHz selects the Ku pair (9750 and 10600 MHz, in
\* kHz), 5000 MHz selects the C-band-high pair (5950 MHz and 0), and
\* 3000 MHz matches no band.
C5_DefaultOscillators ==
    /\ DefaultLnb(11000000)
         => (SelectedLnb(U32(9750000), U32(10600000)) /\ ~NoKnownBand)
    /\ DefaultLnb(5000000)
         => (SelectedLnb(U32(5950000), U32(0)) /\ ~NoKnownBand)
    /\ DefaultLnb(3000000) => NoKnownBand

\* C5 as amended: with lowf = 0, 11000 MHz selects the Ku pair (9750 and
\* 10600 MHz, in kHz); 5000 MHz and 3000 MHz match no band (C-band-high is
\* 4500 to 4800 MHz): the error is logged and the oscillator frequencies
\* stay as the caller passed them.
C5_DefaultOscillatorsInBand ==
    /\ DefaultLnb(11000000)
         => (SelectedLnb(U32(9750000), U32(10600000)) /\ ~NoKnownBand)
    /\ \A khz \in {5000000, 3000000} :
         DefaultLnb(khz)
           => (NoKnownBand /\ SelectedLnb(lastOp.args.lowf, lastOp.args.highf))

\* 5000 MHz was turned down as belonging to no band.
C5_Witness == DefaultLnb(5000000) /\ NoKnownBand

\* C6: dvb_set_dvbs2 submits ROLLOFF_20, ROLLOFF_25, ROLLOFF_35 for the
\* roll-off inputs 20, 25, 35, and for every other input a DTV_ROLLOFF value
\* that is none of these three.
C6_RolloffTranslation ==
    Called("dvb_set_dvbs2") =>
        /\ lastOp.args.rolloff = 20 => Submitted("DTV_ROLLOFF") = {ROLLOFF_20}
        /\ lastOp.args.rolloff = 25 => Submitted("DTV_ROLLOFF") = {ROLLOFF_25}
        /\ lastOp.args.rolloff = 35 => Submitted("DTV_ROLLOFF") = {ROLLOFF_35}
        /\ lastOp.args.rolloff \notin {20, 25, 35}
             => /\ Submitted("DTV_ROLLOFF") # {}
                /\ Submitted("DTV_ROLLOFF")
                     \cap {ROLLOFF_20, ROLLOFF_25, ROLLOFF_35} = {}

Configurators ==
    {"dvb_set_dvbc", "dvb_set_dvbs", "dvb_set_dvbs2", "dvb_set_dvbt",
     "dvb_set_atsc", "dvb_set_cqam", "dvb_set_sec"}

\* This step is a configurator call that returns failure.
ConfiguratorFails == lastOp'.op \in Configurators /\ ret' # 0

\* C7: when a configurator returns failure, the properties the frontend has
\* accepted, tone and voltage included, are those it had before the call.
C7_FailureKeepsTuningState ==
    [][ConfiguratorFails => fe'.props = fe.props]_vars

\* C7 as amended: when one of the six delivery-system configurators returns
\* failure, the properties the frontend has accepted are those it had before
\* the call. When dvb_set_sec returns failure, every property other than
\* DTV_TONE and DTV_VOLTAGE is as before the call; tone and voltage are as
\* before the call when the first property set was rejected, and are
\* SEC_TONE_OFF and the voltage of the requested polarization when the
\* DiSEqC exchange or the final property set failed.
C7_FailureKeepsAllButToneAndVoltage ==
    [][ConfiguratorFails =>
         IF lastOp'.op # "dvb_set_sec" THEN fe'.props = fe.props
         ELSE IF \E i \in 1..Len(calls') :
                    /\ calls'[i].call = "ioctl"
                    /\ calls'[i].req = "FE_SET_PROPERTY"
                    /\ calls'[i].res = 0
              THEN fe'.props =
                     ("DTV_TONE" :> SEC_TONE_OFF)
                     @@ ("DTV_VOLTAGE" :> dvb_parse_polarization(lastOp'.args.pol))
                     @@ fe.props
              ELSE fe'.props = fe.props]_vars

\* dvb_set_sec failed in its DiSEqC exchange on a frontend that had been
\* tuned: the tone is off, the delivery system is still there.
C7_Witness ==
    /\ Called("dvb_set_sec")
    /\ ret # 0
    /\ \E i \in 1..Len(calls) : calls[i] = MsgErr("cannot send DiSEqC command")
    /\ "DTV_DELIVERY_SYSTEM" \in DOMAIN fe.props
    /\ "DTV_TONE" \in DOMAIN fe.props
    /\ fe.props["DTV_TONE"] = SEC_TONE_OFF

(***************************************************************************)
(* Properties of dvb_read.                                                 *)
(***************************************************************************)
\* The descriptors the readiness wait of the last dvb_read flagged; none
\* when the wait failed.
ReadyFds == calls[1].revents

\* The positions of the reads and of the event dequeues in the last call.
DataReads == {i \in 1..Len(calls) : calls[i].call = "read"}

EventDequeues ==
    {i \in 1..Len(calls) :
        calls[i].call = "ioctl" /\ calls[i].req = "FE_GET_EVENT"}

FailedDequeues == {i \in EventDequeues : calls[i].res < 0}

\* C11: when the readiness wait of dvb_read ends with neither the data
\* descriptor nor the frontend descriptor ready, dvb_read returns -1 and
\* makes no read and no event dequeue.
C11_NothingReadyGivesMinusOne ==
    (Called("dvb_read") /\ ReadyFds = {})
        => (ret = -1 /\ DataReads = {} /\ EventDequeues = {})

\* The wait of a tuned session timed out and dvb_read returned -1.
C11_Witness ==
    /\ Called("dvb_read")
    /\ d.frontend # -1
    /\ calls[1].res = 0
    /\ ret = -1

\* C12: when the data descriptor is ready and no failed event dequeue ended
\* the call, dvb_read makes exactly one read; it returns the byte count when
\* the read succeeds, -1 when the read fails with EAGAIN, EINTR or
\* EOVERFLOW, and 0 when it fails otherwise.
C12_ReadResult ==
    (Called("dvb_read") /\ d.demux \in ReadyFds /\ FailedDequeues = {})
        => /\ Cardinality(DataReads) = 1
           /\ \A i \in DataReads :
                /\ calls[i].fd = d.demux
                /\ calls[i].res >= 0 => ret = calls[i].res
                /\ (calls[i].res < 0
                      /\ calls[i].errno \in {"EAGAIN", "EINTR", "EOVERFLOW"})
                     => ret = -1
                /\ (calls[i].res < 0
                      /\ calls[i].errno \notin {"EAGAIN", "EINTR", "EOVERFLOW"})
                     => ret = 0

\* After a dequeued frontend event the read overflowed, and dvb_read
\* returned -1.
C12_Witness ==
    /\ Called("dvb_read")
    /\ EventDequeues # {}
    /\ \E i \in DataReads : calls[i].res = -1 /\ calls[i].errno = "EOVERFLOW"
    /\ ret = -1

\* C13: a dvb_read call dequeues at most one frontend event, only when the
\* frontend is open and ready, and before the data read; when the dequeue
\* fails the call returns -1 for EOVERFLOW and 0 otherwise, and does not
\* read the data descriptor.
C13_EventBeforeData ==
    Called("dvb_read")
        => /\ Cardinality(EventDequeues) <= 1
           /\ EventDequeues # {} => (d.frontend # -1 /\ d.frontend \in ReadyFds)
           /\ \A e \in EventDequeues : \A r \in DataReads : e < r
           /\ \A e \in FailedDequeues :
                /\ DataReads = {}
                /\ ret = IF calls[e].errno = "EOVERFLOW" THEN -1 ELSE 0

\* Both descriptors were ready, the dequeue failed otherwise than by
\* overflow, and dvb_read returned 0 without reading.
C13_Witness ==
    /\ Called("dvb_read")
    /\ ReadyFds = {d.demux, d.frontend}
    /\ \E e \in FailedDequeues : calls[e].errno # "EOVERFLOW"
    /\ DataReads = {}
    /\ ret = 0

(***************************************************************************)
(* The order of the properties in a set.                                   *)
(***************************************************************************)
\* The positions of property cmd in the set that call i of the last
\* operation submitted.
Positions(i, cmd) ==
    {j \in 1..Len(calls[i].arg) : calls[i].arg[j].cmd = cmd}

\* DTV_CLEAR leads set i, and DTV_DELIVERY_SYSTEM, where it appears, comes
\* after it and before every other property.
ClearLeads(i) ==
    /\ 1 \in Positions(i, "DTV_CLEAR")
    /\ \A j \in Positions(i, "DTV_DELIVERY_SYSTEM") :
         /\ j > 1
         /\ \A m \in 1..(j - 1) : calls[i].arg[m].cmd = "DTV_CLEAR"

\* C14: every property set a configurator submits, dvb_set_sec included,
\* has DTV_CLEAR as its first property, and DTV_DELIVERY_SYSTEM, where it
\* appears, after DTV_CLEAR and before every other property.
C14_ClearLeadsEverySet ==
    (lastOp # NoCall /\ lastOp.op \in Configurators)
        => \A i \in SetPropertyCalls : ClearLeads(i)

\* C14 as amended: each of the six delivery-system configurators submits
\* one property set, which has DTV_CLEAR as its first property and
\* DTV_DELIVERY_SYSTEM as its second, and nowhere else. The property sets of
\* dvb_set_sec (tone and voltage, then frequency and tone) hold neither
\* DTV_CLEAR nor DTV_DELIVERY_SYSTEM.
C14_ClearLeadsDeliverySets ==
    (lastOp # NoCall /\ lastOp.op \in Configurators)
        => IF lastOp.op = "dvb_set_sec"
           THEN \A i \in SetPropertyCalls :
                  /\ Positions(i, "DTV_CLEAR") = {}
                  /\ Positions(i, "DTV_DELIVERY_SYSTEM") = {}
           ELSE /\ Cardinality(SetPropertyCalls) = 1
                /\ \A i \in SetPropertyCalls :
                     /\ Positions(i, "DTV_CLEAR") = {1}
                     /\ Positions(i, "DTV_DELIVERY_SYSTEM") = {2}

\* dvb_set_sec went through with its two property sets on a frontend whose
\* delivery system had been set, and the delivery system is still there.
C14_Witness ==
    /\ Called("dvb_set_sec")
    /\ ret = 0
    /\ Cardinality(SetPropertyCalls) = 2
    /\ "DTV_DELIVERY_SYSTEM" \in DOMAIN fe.props

(***************************************************************************)
(* Properties of dvb_close, of the filtering mode and of dvb_open.         *)
(***************************************************************************)
\* The descriptors of the busy slots of the table, in slot order.
PidFdSeq(dev) ==
    LET IsOpen(fd) == fd # -1
    IN SelectSeq([i \in 1..MAX_PIDS |-> dev.pids[i - 1].fd], IsOpen)

\* CA, frontend (each if open), then the demux or DVR descriptor.
NodeFdSeq(dev) ==
    (IF dev.ca # -1 THEN <<dev.ca>> ELSE <<>>)
    \o (IF dev.frontend # -1 THEN <<dev.frontend>> ELSE <<>>)
    \o <<dev.demux>>

\* The calls of c are closes of the descriptors fds, in that order.
ClosesInOrder(c, fds) ==
    /\ Len(c) = Len(fds)
    /\ \A i \in 1..Len(c) : c[i] = CallClose(fds[i])

\* C15: dvb_close closes every open per-PID descriptor first, then the CA
\* descriptor if open, the frontend descriptor if open and the demux or DVR
\* descriptor, each once, and leaves no descriptor of the session open.
C15_CloseOrder ==
    [][lastOp'.op = "dvb_close"
         => /\ ClosesInOrder(calls',
                  (IF d.budget THEN <<>> ELSE PidFdSeq(d)) \o NodeFdSeq(d))
            /\ DOMAIN kfd' = {}]_vars

\* C15 as amended: in fallback mode dvb_close first closes d->dir, the
\* duplicate of the adapter directory descriptor, then every open per-PID
\* descriptor in slot order; in either mode it then closes the CA descriptor
\* if open, the frontend descriptor if open and the demux or DVR
\* descriptor. Each is closed once and no descriptor of the session stays
\* open.
C15_CloseOrderWithDir ==
    [][lastOp'.op = "dvb_close"
         => /\ ClosesInOrder(calls',
                  (IF d.budget THEN <<>> ELSE <<d.dir>> \o PidFdSeq(d))
                  \o NodeFdSeq(d))
            /\ \A i, j \in 1..Len(calls') : calls'[i] = calls'[j] => i = j
            /\ DOMAIN kfd' = {}]_vars

\* A tuned fallback session with a CA module and two PID filters was closed.
C15_Witness ==
    /\ state = "closed"
    /\ lastOp.op = "dvb_close"
    /\ ~obj.budget
    /\ Len(calls) = 6
    /\ DOMAIN kfd = {}

\* The descriptors that carry a shared (TS demux tap) filter.
SharedFilters ==
    {f \in DOMAIN kfd : kfd[f].filter.output = "DMX_OUT_TSDEMUX_TAP"}

\* The open per-PID descriptors: demux nodes other than the data descriptor.
PerPidFds == {f \in DOMAIN kfd : kfd[f].kind = "demux" /\ f # d.demux}

\* C16: the filtering mode is the one dvb_open chose from "dvb-budget-mode"
\* and does not change: a budget-mode session has exactly one shared filter,
\* on its demux descriptor, and no per-PID descriptor; a fallback-mode
\* session has no shared filter and at most MAX_PIDS per-PID descriptors.
C16_ModesNeverMixed ==
    state = "open"
        => /\ d.budget = obj.budget
           /\ d.budget => (SharedFilters = {d.demux} /\ PerPidFds = {})
           /\ ~d.budget
                => /\ SharedFilters = {}
                   /\ kfd[d.demux].kind = "dvr"
                   /\ Cardinality(PerPidFds) <= MAX_PIDS

\* A fallback session holds as many per-PID descriptors as the table has
\* slots, and a further dvb_add_pid has just been turned down.
C16_Witness ==
    /\ InFallback
    /\ Cardinality(PerPidFds) = MAX_PIDS
    /\ Called("dvb_add_pid")
    /\ ret = -1

\* The last operation opened the node what.
Opened(what) ==
    \E i \in 1..Len(calls) :
        calls[i].call = "open" /\ calls[i].what = what /\ calls[i].fd # -1

\* The last operation tried to open the node what.
TriedToOpen(what) ==
    \E i \in 1..Len(calls) : calls[i].call = "open" /\ calls[i].what = what

\* The last operation made the ioctl req with result res.
IoctlGave(req, res) ==
    \E i \in 1..Len(calls) :
        calls[i].call = "ioctl" /\ calls[i].req = req /\ calls[i].res = res

\* Every mandatory step of the last dvb_open succeeded.
MandatoryStepsDone ==
    /\ Opened("adapter")
    /\ IF obj.budget
       THEN Opened("demux") /\ IoctlGave("DMX_SET_PES_FILTER", 0)
       ELSE Opened("dvr")
    /\ lastOp.tune => (Opened("frontend") /\ IoctlGave("FE_GET_INFO", 0))

\* C17: dvb_open returns a session exactly when every mandatory step
\* succeeds: the adapter directory, the demux node and its shared filter
\* (budget mode) or the DVR node (fallback mode) and, when tuning is asked
\* for, the frontend node and FE_GET_INFO. A CA node that does not open
\* leaves d->ca at -1; without tuning neither the frontend nor the CA node
\* is opened.
C17_OpenSucceedsOnMandatorySteps ==
    Called("dvb_open")
        => /\ (state = "open") = MandatoryStepsDone
           /\ ret = IF MandatoryStepsDone THEN 0 ELSE -1
           /\ state = "open"
                => /\ ~Opened("ca") => d.ca = -1
                   /\ Opened("ca") => d.ca \in DOMAIN kfd
                   /\ ~lastOp.tune
                        => /\ ~TriedToOpen("frontend") /\ ~TriedToOpen("ca")
                           /\ d.frontend = -1 /\ d.ca = -1

\* A budget-mode session was opened for tuning although the demux buffer
\* could not be expanded and the CA node did not open.
C17_Witness ==
    /\ Called("dvb_open")
    /\ state = "open"
    /\ lastOp.tune
    /\ IoctlGave("DMX_SET_BUFFER_SIZE", -1)
    /\ TriedToOpen("ca") /\ ~Opened("ca")
    /\ d.ca = -1 /\ d.frontend \in DOMAIN kfd

(***************************************************************************)
(* Frame properties of the PID filter table.                               *)
(***************************************************************************)
\* C18: in fallback mode, dvb_remove_pid for a PID that no slot tracks
\* changes no slot and closes no open descriptor.
C18_RemoveUntrackedPidIsNoOp ==
    [][(InFallback /\ lastOp'.op = "dvb_remove_pid" /\ ~Tracked(d, lastOp'.pid))
         => (d'.pids = d.pids /\ kfd' = kfd)]_vars

\* dvb_remove_pid (0xFFFF) met a free slot, whose PID field is 0xFFFF,
\* behind a busy one: it closed descriptor -1 and the table is as it was.
C18_Witness ==
    /\ InFallback
    /\ lastOp = [op |-> "dvb_remove_pid", pid |-> 65535]
    /\ calls = <<CallClose(-1)>>
    /\ d.pids[0].fd \in DOMAIN kfd
    /\ d.pids[1] = EmptySlot

\* The last dvb_add_pid failed to open the demux node or to install the
\* filter.
AddStepFailed(c) ==
    \E i \in 1..Len(c) :
        \/ c[i] = CallOpen("demux", -1)
        \/ (c[i].call = "ioctl" /\ c[i].req = "DMX_SET_PES_FILTER" /\ c[i].res = -1)

\* C19: in fallback mode, when dvb_add_pid fails to open the per-PID demux
\* node or to install its filter, it returns -1, every slot is unchanged and
\* the descriptor it opened, if any, is closed again.
C19_FailedAddConsumesNothing ==
    [][(InFallback /\ lastOp'.op = "dvb_add_pid" /\ AddStepFailed(calls'))
         => /\ ret' = -1
            /\ d'.pids = d.pids
            /\ kfd' = kfd
            /\ \A i \in OpensIn(calls') :
                 calls'[i].fd # -1
                   => \E j \in (i + 1)..Len(calls') :
                        calls'[j] = CallClose(calls'[i].fd)]_vars

\* The filter of a freshly opened descriptor was refused: the descriptor is
\* closed again and the slot it was meant for is still free.
C19_Witness ==
    /\ InFallback
    /\ Called("dvb_add_pid")
    /\ ret = -1
    /\ Len(calls) = 3
    /\ calls[1].call = "open" /\ calls[1].fd # -1
    /\ calls[3] = CallClose(calls[1].fd)
    /\ calls[1].fd \notin DOMAIN kfd
    /\ ~TableFull(d)

(***************************************************************************)
(* The intermediate frequency of dvb_set_sec.                              *)
(***************************************************************************)
\* The oscillator frequency the last dvb_set_sec call has to use: the high
\* one exactly when it is not zero and freq > switchf.
ChosenOscillator ==
    LET a == lastOp.args
        osc == sec_oscillators(a.freq, a.lowf, a.highf)
    IN IF osc.highf # U32(0) /\ U32Less(a.switchf, a.freq)
       THEN osc.highf ELSE osc.lowf

\* |freq - oscillator| as a number, without wrap-around.
AbsoluteDifference ==
    LET f == lastOp.args.freq
    IN IF U32Less(f, ChosenOscillator) THEN U32Sub(ChosenOscillator, f)
       ELSE U32Sub(f, ChosenOscillator)

\* C20: for all 32-bit freq, lowf, highf and switchf, the frequency
\* dvb_set_sec submits in its final property pair is the absolute
\* difference between freq and the chosen oscillator frequency, and the
\* assertion stops every call for which that difference is 2^31 or more.
C20_IntermediateFrequency ==
    Called("dvb_set_sec")
        => /\ Submitted("DTV_FREQUENCY") \subseteq {AbsoluteDifference}
           /\ ~U32Less(AbsoluteDifference, <<32768, 0>>) => state = "aborted"

(***************************************************************************)
(* The command sequence of dvb_set_sec.                                    *)
(***************************************************************************)
\* The positions of the frontend ioctls of the last operation.
FrontendIoctls == {i \in 1..Len(calls) : calls[i].call = "ioctl"}

\* Call i submits the tone-off and voltage pair.
IsVoltagePair(i) ==
    /\ calls[i].req = "FE_SET_PROPERTY"
    /\ calls[i].arg[Len(calls[i].arg)].cmd = "DTV_VOLTAGE"

\* The failed steps before the final pair: the tone-off and voltage
\* submission, the DiSEqC master command, the tone burst.
FatalFailures ==
    {i \in FrontendIoctls :
        /\ calls[i].res < 0
        /\ \/ calls[i].req \in {"FE_DISEQC_SEND_MASTER_CMD", "FE_DISEQC_SEND_BURST"}
           \/ IsVoltagePair(i)}

\* The final property pair (frequency and tone) was submitted.
FinalPairSubmitted == Submitted("DTV_FREQUENCY") # {}

\* C21: when the tone-off and voltage submission, the DiSEqC master command
\* or the tone burst of dvb_set_sec fails, the call returns -1 and issues no
\* further frontend command, the final frequency and tone pair in
\* particular; a failed high-LNB-voltage enable alone does not end the call.
C21_SecFailureStopsSequence ==
    (Called("dvb_set_sec") /\ state = "open")
        => /\ \A i \in FatalFailures :
                /\ ret = -1
                /\ \A j \in FrontendIoctls : j <= i
                /\ ~FinalPairSubmitted
           /\ FatalFailures = {} => FinalPairSubmitted

\* The tone burst failed after the high-LNB-voltage enable had failed too:
\* the call returned -1 without submitting the final pair.
C21_Witness ==
    /\ Called("dvb_set_sec")
    /\ ret = -1
    /\ IoctlGave("FE_ENABLE_HIGH_LNB_VOLTAGE", -1)
    /\ IoctlGave("FE_DISEQC_SEND_BURST", -1)
    /\ ~FinalPairSubmitted

\* The frontend commands and the waits of the last operation, in order,
\* from the first property set on.
IsSecStep(c) ==
    \/ c.call = "msleep"
    \/ (c.call = "ioctl" /\ c.req # "FE_ENABLE_HIGH_LNB_VOLTAGE")

SecSteps == SelectSeq(calls, IsSecStep)

IsCommand(c, req) == c.call = "ioctl" /\ c.req = req

IsWait(c, us) == c.call = "msleep" /\ c.us >= us

IsPropertyPair(c, first, second) ==
    /\ IsCommand(c, "FE_SET_PROPERTY")
    /\ Len(c.arg) = 2
    /\ c.arg[1].cmd = first
    /\ c.arg[2].cmd = second

\* C22: a successful dvb_set_sec call with a satellite number sends
\* tone-off and voltage, waits 15 ms or more, sends the DiSEqC master
\* command, waits 54 + 15 ms or more, sends the tone burst, waits 15 ms or
\* more and submits frequency and tone; with satellite number 0 it sends
\* tone-off and voltage and then frequency and tone, nothing in between.
C22_SecOrderAndWaits ==
    (Called("dvb_set_sec") /\ state = "open" /\ ret = 0)
        => IF obj.satno # 0
           THEN /\ Len(SecSteps) = 7
                /\ IsPropertyPair(SecSteps[1], "DTV_TONE", "DTV_VOLTAGE")
                /\ SecSteps[1].arg[1].data = SEC_TONE_OFF
                /\ IsWait(SecSteps[2], 15000)
                /\ IsCommand(SecSteps[3], "FE_DISEQC_SEND_MASTER_CMD")
                /\ IsWait(SecSteps[4], 54000 + 15000)
                /\ IsCommand(SecSteps[5], "FE_DISEQC_SEND_BURST")
                /\ IsWait(SecSteps[6], 15000)
                /\ IsPropertyPair(SecSteps[7], "DTV_FREQUENCY", "DTV_TONE")
           ELSE /\ Len(SecSteps) = 2
                /\ IsPropertyPair(SecSteps[1], "DTV_TONE", "DTV_VOLTAGE")
                /\ SecSteps[1].arg[1].data = SEC_TONE_OFF
                /\ IsPropertyPair(SecSteps[2], "DTV_FREQUENCY", "DTV_TONE")

\* A call for satellite 2 went through all seven steps.
C22_Witness ==
    /\ Called("dvb_set_sec")
    /\ ret = 0
    /\ obj.satno = 2
    /\ Len(SecSteps) = 7
    /\ IsCommand(SecSteps[5], "FE_DISEQC_SEND_BURST")
    /\ SecSteps[5].arg = SEC_MINI_B

(***************************************************************************)
(* Oscillators and tone of dvb_set_sec.                                    *)
(***************************************************************************)
\* C23: a dvb_set_sec call with lowf = 0 for a frequency that lies in no
\* band, whatever highf and switchf are, is not stopped, uses 0 for both
\* oscillator frequencies and so submits the input frequency unchanged.
C23_NoBandMeansZeroOscillators ==
    (Called("dvb_set_sec") /\ lastOp.args.lowf = U32(0) /\ NoKnownBand)
        => /\ state = "open"
           /\ SelectedLnb(U32(0), U32(0))
           /\ Submitted("DTV_FREQUENCY") \subseteq {lastOp.args.freq}

\* The last dvb_set_sec call had to use the high oscillator.
HighSelected ==
    LET a == lastOp.args
        osc == sec_oscillators(a.freq, a.lowf, a.highf)
    IN osc.highf # U32(0) /\ U32Less(a.switchf, a.freq)

\* The tone the dvb-tone option asks for.
ExpectedTone ==
    CASE obj.tone = 0 -> SEC_TONE_OFF
      [] obj.tone = 1 -> SEC_TONE_ON
      [] OTHER -> IF HighSelected THEN SEC_TONE_ON ELSE SEC_TONE_OFF

\* The tones submitted together with the frequency.
FinalTones ==
    {calls[i].arg[2].data :
        i \in {n \in 1..Len(calls) :
                 IsPropertyPair(calls[n], "DTV_FREQUENCY", "DTV_TONE")}}

\* The option bits of the DiSEqC master commands sent.
OptionBits == {m[4] % 2 : m \in MasterCmds}

\* C24: the tone dvb_set_sec submits with the frequency, and the option bit
\* of the DiSEqC command, is off when dvb-tone is 0, on when it is 1, and for
\* every other value on exactly when the high oscillator was selected.
C24_ToneOverride ==
    Called("dvb_set_sec")
        => /\ FinalTones \subseteq {ExpectedTone}
           /\ OptionBits \subseteq {IF ExpectedTone = SEC_TONE_ON THEN 1 ELSE 0}

\* With dvb-tone = 2 and the high oscillator selected, the tone was
\* submitted on, after a DiSEqC command with the option bit set.
C24_Witness ==
    /\ Called("dvb_set_sec")
    /\ obj.tone = 2
    /\ HighSelected
    /\ FinalTones = {SEC_TONE_ON}
    /\ OptionBits = {1}

(***************************************************************************)
(* The translations of configuration values.                               *)
(***************************************************************************)
\* What a table gives for a key, found by comparing the key with each
\* entry's for equality: the entry's enum value, def when no entry has it.
Lookup(map, key, def) ==
    IF key \in Keys(map)
    THEN map[CHOOSE j \in 1..Len(map) : map[j].vlc = key].linux_
    ELSE def

\* The last operation submitted, for property cmd, what the table gives.
Translates(cmd, map, key, def) == Submitted(cmd) = {Lookup(map, key, def)}

\* C25: the translations of modulation, code rate, guard interval and
\* transmission mode give, for an input equal to a key of the table, that
\* key's enum value, and for every other input, no string included, the
\* default: the one the configurator passes for the modulation, the
\* automatic value for the three others.
C25_TranslationsTotal ==
    LET a == lastOp.args
    IN /\ Called("dvb_set_dvbc")
            => /\ Translates("DTV_MODULATION", mods, a.modstr, "QAM_AUTO")
               /\ Translates("DTV_INNER_FEC", rates, a.fecstr, "FEC_AUTO")
       /\ Called("dvb_set_dvbs")
            => Translates("DTV_INNER_FEC", rates, a.fecstr, "FEC_AUTO")
       /\ Called("dvb_set_dvbs2")
            => /\ Translates("DTV_MODULATION", mods, a.modstr, "QPSK")
               /\ Translates("DTV_INNER_FEC", rates, a.fecstr, "FEC_AUTO")
       /\ Called("dvb_set_dvbt")
            => /\ Translates("DTV_MODULATION", mods, a.modstr, "QAM_AUTO")
               /\ Translates("DTV_CODE_RATE_HP", rates, a.fechstr, "FEC_AUTO")
               /\ Translates("DTV_CODE_RATE_LP", rates, a.feclstr, "FEC_AUTO")
               /\ Translates("DTV_TRANSMISSION_MODE", transmit_mode_tab,
                             a.transmit_val, "TRANSMISSION_MODE_AUTO")
               /\ Translates("DTV_GUARD_INTERVAL", guard_tab, a.guardstr,
                             "GUARD_INTERVAL_AUTO")
       /\ Called("dvb_set_atsc")
            => Translates("DTV_MODULATION", mods, a.modstr, "VSB_8")
       /\ Called("dvb_set_cqam")
            => Translates("DTV_MODULATION", mods, a.modstr, "QAM_AUTO")

\* dvb_set_dvbt was given "1/160" as guard interval and "1/3" as code
\* rate, neither a key, with the key 8 as transmission mode: it submitted
\* the automatic guard interval and code rate and the 8K mode.
C25_Witness ==
    /\ Called("dvb_set_dvbt")
    /\ lastOp.args.guardstr = Str(<<"1", "/", "1", "6", "0">>)
    /\ lastOp.args.fechstr = Str(<<"1", "/", "3">>)
    /\ lastOp.args.modstr = NULL
    /\ Submitted("DTV_GUARD_INTERVAL") = {"GUARD_INTERVAL_AUTO"}
    /\ Submitted("DTV_CODE_RATE_HP") = {"FEC_AUTO"}
    /\ Submitted("DTV_MODULATION") = {"QAM_AUTO"}
    /\ Submitted("DTV_TRANSMISSION_MODE") = {"TRANSMISSION_MODE_8K"}


(***************************************************************************)
(* Units of frequency and bandwidth.                                       *)
(***************************************************************************)
\* a + b modulo 2^32.
Sum32(a, b) ==
    LET lo == a[2] + b[2]
    IN <<(a[1] + b[1] + lo \div 65536) % 65536, lo % 65536>>

\* n times a modulo 2^32, by doubling.
RECURSIVE Scaled(_, _)
Scaled(a, n) ==
    IF n = 0 THEN U32(0)
    ELSE LET half == Scaled(a, n \div 2)
         IN IF n % 2 = 1 THEN Sum32(Sum32(half, half), a)
            ELSE Sum32(half, half)

\* C26: dvb_set_dvbc, dvb_set_dvbt, dvb_set_atsc and dvb_set_cqam submit
\* DTV_FREQUENCY = 1000 times the input frequency modulo 2^32; dvb_set_dvbt
\* submits DTV_BANDWIDTH_HZ = 1000000 times the input bandwidth modulo 2^32;
\* dvb_set_dvbs and dvb_set_dvbs2 submit the input frequency as it is.
C26_UnitsWrap ==
    LET a == lastOp.args
    IN /\ (\E n \in {"dvb_set_dvbc", "dvb_set_dvbt", "dvb_set_atsc",
                     "dvb_set_cqam"} : Called(n))
            => Submitted("DTV_FREQUENCY") = {Scaled(a.freq, 1000)}
       /\ Called("dvb_set_dvbt")
            => Submitted("DTV_BANDWIDTH_HZ") = {Scaled(a.bandwidth, 1000000)}
       /\ (Called("dvb_set_dvbs") \/ Called("dvb_set_dvbs2"))
            => Submitted("DTV_FREQUENCY") = {a.freq}

\* dvb_set_dvbt for 4294968 kHz and 4295 MHz submitted the frequency 704
\* and the bandwidth 32704.
C26_Witness ==
    /\ Called("dvb_set_dvbt")
    /\ lastOp.args.freq = U32(4294968)
    /\ lastOp.args.bandwidth = U32(4295)
    /\ Submitted("DTV_FREQUENCY") = {U32(704)}
    /\ Submitted("DTV_BANDWIDTH_HZ") = {U32(32704)}


(***************************************************************************)
(* The PID table and the filter descriptors.                               *)
(***************************************************************************)
\* The slots that hold an open descriptor for PID p.
SlotsOf(p) == {i \in DOMAIN d.pids : d.pids[i].fd # -1 /\ d.pids[i].pid = p}

\* The open per-PID descriptors whose filter is installed for PID p.
FiltersOf(p) == {f \in PerPidFds : kfd[f].filter.pid = p}

\* C27: in fallback mode no PID is held by two slots at once, and no PID
\* has more than one open filter descriptor.
C27_NoPidInTwoSlots ==
    InFallback
        => \A p \in PidSet :
             /\ Cardinality(SlotsOf(p)) <= 1
             /\ Cardinality(FiltersOf(p)) <= 1

\* C28: in fallback mode, after dvb_remove_pid for a PID has returned, no
\* slot tracks that PID and no open filter descriptor for it is left.
C28_RemovedPidIsGone ==
    (InFallback /\ Called("dvb_remove_pid"))
        => /\ SlotsOf(lastOp.pid) = {}
           /\ FiltersOf(lastOp.pid) = {}

\* C29: in fallback mode, whenever dvb_add_pid returns success for a PID,
\* 0xFFFF included, some slot holds that PID with an open descriptor whose
\* filter is installed for that PID.
C29_AddedPidIsFiltered ==
    (InFallback /\ Called("dvb_add_pid") /\ ret = 0)
        => \E i \in SlotsOf(lastOp.pid) :
             d.pids[i].fd \in FiltersOf(lastOp.pid)


(***************************************************************************)
(* The order of the translation tables.                                    *)
(***************************************************************************)
\* Each entry of the table is below the next one under the comparator.
Ascending(map, cmp(_, _)) ==
    \A j \in 1..(Len(map) - 1) : cmp(map[j].vlc, map[j + 1]) < 0

\* The binary search for the key of each entry finds that entry.
EveryKeyFound(map, cmp(_, _)) ==
    \A j \in 1..Len(map) :
        bsearch([n \in 1..Len(map) |-> cmp(map[j].vlc, map[n])]) = j

\* The table is in order and the search finds each of its keys.
InLookupOrder(map, cmp(_, _)) == Ascending(map, cmp) /\ EveryKeyFound(map, cmp)

\* The last operation is one of names.
CalledOneOf(names) == \E n \in names : Called(n)

\* C30: each translation table an operation searches (modulation, code
\* rate, guard interval, transmission mode, hierarchy, polarization) is
\* strictly ascending in the key its binary search compares, under the
\* comparator of that search, and the search finds every key of the table.
C30_TablesAscending ==
    /\ CalledOneOf({"dvb_set_dvbc", "dvb_set_dvbs2", "dvb_set_dvbt",
                    "dvb_set_atsc", "dvb_set_cqam"})
         => InLookupOrder(mods, scmp)
    /\ CalledOneOf({"dvb_set_dvbc", "dvb_set_dvbs", "dvb_set_dvbs2",
                    "dvb_set_dvbt"})
         => InLookupOrder(rates, scmp)
    /\ Called("dvb_set_dvbt")
         => /\ InLookupOrder(transmit_mode_tab, icmp)
            /\ InLookupOrder(guard_tab, scmp)
            /\ InLookupOrder(hierarchy_tab, icmp)
    /\ Called("dvb_set_sec") => InLookupOrder(polarization_tab, icmp)

=============================================================================
